---- MODULE Spec2Model ----
(***************************************************************************)
(* Model of the Sicoob statement pipeline (automacao_sicoob).              *)
(*                                                                         *)
(*   src/automação_extrato.py                 Format A, "root" variant     *)
(*   src/App_automacao/automação_extrato.py   Format A "app" variant and   *)
(*                                            Format B (novo formato)      *)
(*                                                                         *)
(* Text is modelled as sequences: an amount string is a sequence of        *)
(* one-character strings, a description is a sequence of tokens where a    *)
(* token is a word or the single blank " ".  Numbers are exact decimals    *)
(* [neg, ip, fr] (sign, integer part, fraction digits without trailing     *)
(* zeros).  A cell of a table is a record [k, s, n]: k is the kind         *)
(* ("none" = empty/NaN, "str", "num", "date"), s the text, n the number    *)
(* (for a date: the day, in ip).                                           *)
(***************************************************************************)
EXTENDS Integers, Sequences, FiniteSets, TLC

VARIABLES
    variant,    \* which pipeline function processes the statement
    stmt,       \* the statement file: its rows after the header skip
    wb,         \* the workbook file on disk: [banco, base, tem_banco]
    pre,        \* the workbook as it was before the last run
    res,        \* the result record returned by the last run
    run,        \* facts of the last run (entries, environment), for the properties
    hist,       \* one summary per completed run, oldest first
    pin,        \* value parser: the input under test
    pout,       \* value parser: the value returned
    cons,       \* row consolidator and filters: position in the loop and its locals
    sess,       \* a session of the menu: dialogs answered, files on disk, position
    mes,        \* the ledger merger alone: new entries, existing rows, result
    dcd         \* the statement decoder alone: the file, the attempts, the table

vars == <<variant, stmt, wb, pre, res, run, hist, pin, pout, cons, sess, mes, dcd>>

(***************************************************************************)
(* Cells, numbers, text                                                    *)
(***************************************************************************)
Zero == [neg |-> FALSE, ip |-> 0, fr |-> <<>>]

NoneCell == [k |-> "none", s |-> <<>>, n |-> Zero]
Str(s) == [k |-> "str", s |-> s, n |-> Zero]
Num(n) == [k |-> "num", s |-> <<>>, n |-> n]
Date(d) == [k |-> "date", s |-> <<>>, n |-> [neg |-> FALSE, ip |-> d, fr |-> <<>>]]

Dec(ip, fr) == [neg |-> FALSE, ip |-> ip, fr |-> fr]
Neg(n) == [n EXCEPT !.neg = TRUE]

\* pd.isna / pd.notna of a cell
notna(c) == c.k # "none"

Digits == {"0", "1", "2", "3", "4", "5", "6", "7", "8", "9"}

DigitVal(c) ==
    CASE c = "0" -> 0 [] c = "1" -> 1 [] c = "2" -> 2 [] c = "3" -> 3
      [] c = "4" -> 4 [] c = "5" -> 5 [] c = "6" -> 6 [] c = "7" -> 7
      [] c = "8" -> 8 [] c = "9" -> 9

IsWs(c) == c = " "

\* str.upper() / str.lower() on one character or word of the model's vocabulary
UpperTok(c) ==
    CASE c = "d" -> "D" [] c = "c" -> "C" [] c = "x" -> "X"
      [] c = "saldo" -> "SALDO" [] c = "anterior" -> "ANTERIOR"
      [] c = "do" -> "DO" [] c = "dia" -> "DIA" [] c = "atual" -> "ATUAL"
      [] c = "final" -> "FINAL" [] c = "bloqueado" -> "BLOQUEADO"
      [] c = "disponível" -> "DISPONÍVEL" [] c = "em" -> "EM"
      [] c = "conta" -> "CONTA" [] c = "pix" -> "PIX" [] c = "loja" -> "LOJA"
      [] OTHER -> c

LowerTok(c) ==
    CASE c = "D" -> "d" [] c = "C" -> "c" [] c = "X" -> "x"
      [] c = "SALDO" -> "saldo" [] c = "Saldo" -> "saldo"
      [] c = "ANTERIOR" -> "anterior"
      [] c = "DO" -> "do" [] c = "DIA" -> "dia" [] c = "ATUAL" -> "atual"
      [] c = "FINAL" -> "final" [] c = "BLOQUEADO" -> "bloqueado"
      [] c = "DISPONÍVEL" -> "disponível" [] c = "EM" -> "em"
      [] c = "CONTA" -> "conta" [] c = "PIX" -> "pix" [] c = "Pix" -> "pix"
      [] c = "LOJA" -> "loja"
      [] OTHER -> c

upper(s) == [i \in 1..Len(s) |-> UpperTok(s[i])]
lower(s) == [i \in 1..Len(s) |-> LowerTok(s[i])]

RECURSIVE lstrip(_)
lstrip(s) == IF s # <<>> /\ IsWs(Head(s)) THEN lstrip(Tail(s)) ELSE s

RECURSIVE rstrip(_)
rstrip(s) ==
    IF s # <<>> /\ IsWs(s[Len(s)]) THEN rstrip(SubSeq(s, 1, Len(s) - 1)) ELSE s

\* str.strip()
strip(s) == rstrip(lstrip(s))

\* re.sub(r'\s+', ' ', s): every run of blanks becomes one blank
RECURSIVE collapse_ws(_)
collapse_ws(s) ==
    IF s = <<>> THEN <<>>
    ELSE IF IsWs(Head(s)) THEN <<" ">> \o collapse_ws(lstrip(s))
    ELSE <<Head(s)>> \o collapse_ws(Tail(s))

\* `x in s` for one element x
HasTok(s, x) == \E i \in 1..Len(s) : s[i] = x

\* `p in s` for a text p: p occurs as a contiguous part of s
Contains(s, p) ==
    \E i \in 0..(Len(s) - Len(p)) : \A j \in 1..Len(p) : s[i + j] = p[j]

\* s.replace(a, b) for single elements
replace(s, a, b) == [i \in 1..Len(s) |-> IF s[i] = a THEN b ELSE s[i]]

RECURSIVE remove(_, _)
remove(s, a) ==
    IF s = <<>> THEN <<>>
    ELSE IF Head(s) = a THEN remove(Tail(s), a)
    ELSE <<Head(s)>> \o remove(Tail(s), a)

RECURSIVE keep(_, _)
keep(s, A) ==
    IF s = <<>> THEN <<>>
    ELSE IF Head(s) \in A THEN <<Head(s)>> \o keep(Tail(s), A)
    ELSE keep(Tail(s), A)

RECURSIVE rstrip_zeros(_)
rstrip_zeros(f) ==
    IF f # <<>> /\ f[Len(f)] = 0 THEN rstrip_zeros(SubSeq(f, 1, Len(f) - 1)) ELSE f

\* the value of a run of digit characters
RECURSIVE digits_value(_)
digits_value(s) ==
    IF s = <<>> THEN 0
    ELSE 10 * digits_value(SubSeq(s, 1, Len(s) - 1)) + DigitVal(s[Len(s)])

AllDigits(s) == \A i \in 1..Len(s) : s[i] \in Digits

\* a conversion that accepts whole numbers only
float_so_inteiros(t) ==
    IF t # <<>> /\ AllDigits(t)
    THEN [ok |-> TRUE, n |-> [neg |-> FALSE, ip |-> digits_value(t), fr |-> <<>>]]
    ELSE [ok |-> FALSE, n |-> Zero]

(***************************************************************************)
(* float(text): Python's float on a text over digits, '.', '-'.            *)
(* [ok |-> FALSE] stands for ValueError.                                   *)
(***************************************************************************)
float(t) ==
    LET neg  == t # <<>> /\ Head(t) = "-"
        body == IF neg THEN Tail(t) ELSE t
        dots == {i \in 1..Len(body) : body[i] = "."}
        dot  == IF dots = {} THEN Len(body) + 1 ELSE CHOOSE i \in dots : TRUE
        ipart == SubSeq(body, 1, dot - 1)
        fpart == SubSeq(body, dot + 1, Len(body))
    IN  IF /\ Cardinality(dots) <= 1
           /\ AllDigits(ipart) /\ AllDigits(fpart)
           /\ Len(ipart) + Len(fpart) >= 1
        THEN [ok |-> TRUE,
              n  |-> [neg |-> neg, ip |-> digits_value(ipart),
                      fr  |-> rstrip_zeros([i \in 1..Len(fpart) |-> DigitVal(fpart[i])])]]
        ELSE [ok |-> FALSE, n |-> Zero]

(***************************************************************************)
(* Format A value parser                                                   *)
(***************************************************************************)
\* number of consecutive digits of s from position i on
RECURSIVE DigitRun(_, _)
DigitRun(s, i) ==
    IF i <= Len(s) /\ s[i] \in Digits THEN 1 + DigitRun(s, i + 1) ELSE 0

RECURSIVE SkipWs(_, _)
SkipWs(s, i) == IF i <= Len(s) /\ IsWs(s[i]) THEN SkipWs(s, i + 1) ELSE i

\* (?:\.\d{3})* from position i: the position after the last group
RECURSIVE Groups(_, _)
Groups(s, i) ==
    IF i <= Len(s) /\ s[i] = "." /\ DigitRun(s, i + 1) >= 3
    THEN Groups(s, i + 4)
    ELSE i

\* re.match(r'^-?\s*(\d{1,3}(?:\.\d{3})*,\d{2})\s*([DC])$', s):
\* [ok, numero (group 1), tipo (group 2)]
padrao_match(s) ==
    LET a  == IF s # <<>> /\ Head(s) = "-" THEN 2 ELSE 1
        b  == SkipWs(s, a)
        r  == DigitRun(s, b)
        lead == IF r > 3 THEN 3 ELSE r
        g  == Groups(s, b + lead)
        e  == g + 3
        f  == SkipWs(s, e)
        ok == /\ r >= 1
              /\ g <= Len(s) /\ s[g] = ","
              /\ DigitRun(s, g + 1) >= 2
              /\ f = Len(s)
              /\ s[f] \in {"D", "C"}
    IN  IF ok THEN [ok |-> TRUE, numero |-> SubSeq(s, b, e - 1), tipo |-> s[f]]
        ELSE [ok |-> FALSE, numero |-> <<>>, tipo |-> ""]

\* a generic branch that looks for the credit flag in upper case only
valor_generico_so_maiuscula(valor_str) ==
    IF HasTok(valor_str, "C") THEN NoneCell
    ELSE LET valor_limpo == keep(valor_str, Digits \cup {".", ",", "-"})
             parsed == float(replace(valor_limpo, ",", "."))
         IN  IF valor_limpo # <<>> /\ parsed.ok
                /\ (HasTok(valor_str, "-") \/ HasTok(upper(valor_str), "D"))
             THEN Num(parsed.n)
             ELSE NoneCell

\* the generic branch: lines 200-217
valor_generico(valor_str) ==
    IF HasTok(upper(valor_str), "C") THEN NoneCell
    ELSE LET valor_limpo == keep(valor_str, Digits \cup {".", ",", "-"})
             parsed == float(replace(valor_limpo, ",", "."))
         IN  IF valor_limpo # <<>> /\ parsed.ok
                /\ (HasTok(valor_str, "-") \/ HasTok(upper(valor_str), "D"))
             THEN Num(parsed.n)
             ELSE NoneCell

\* a conversion that forgets to remove the thousands separators
converter_sem_milhar(numero_str) == float(replace(numero_str, ",", "."))

\* numero_str.replace('.', '').replace(',', '.') and float(numero_str)
converter_numero(numero_str) == float(replace(remove(numero_str, "."), ",", "."))

processar_formato_valor_sicoob(valor) ==
    IF valor.k = "none" \/ (valor.k = "str" /\ valor.s = <<>>) THEN NoneCell
    ELSE LET valor_str == collapse_ws(strip(valor.s))
             m == padrao_match(valor_str)
         IN  IF valor_str = <<>> \/ valor_str = <<"nan">> THEN NoneCell
             ELSE IF m.ok
             THEN IF m.tipo = "D"
                  THEN Num(converter_numero(m.numero).n)
                  ELSE NoneCell
             ELSE valor_generico(valor_str)

(***************************************************************************)
(* Dates as text.  <<"dmy", c>> is day c written DD/MM/YYYY, <<"iso", c>>  *)
(* is the same day written YYYY-MM-DD; any other text is no date.          *)
(***************************************************************************)
DigitChar(d) ==
    CASE d = 0 -> "0" [] d = 1 -> "1" [] d = 2 -> "2" [] d = 3 -> "3"
      [] d = 4 -> "4" [] d = 5 -> "5" [] d = 6 -> "6" [] d = 7 -> "7"
      [] d = 8 -> "8" [] d = 9 -> "9"

IsDateText(s, fmt) == Len(s) = 2 /\ s[1] = fmt /\ s[2] \in Digits

\* datetime.strptime(s, '%d/%m/%Y'): [ok, d]
strptime_dmy(s) ==
    IF IsDateText(s, "dmy") THEN [ok |-> TRUE, d |-> DigitVal(s[2])]
    ELSE [ok |-> FALSE, d |-> 0]

\* pd.to_datetime(x, dayfirst=True, errors='coerce') of one cell: a date cell or NaT
to_datetime(c) ==
    IF c.k = "date" THEN c
    ELSE IF c.k = "str" /\ (IsDateText(strip(c.s), "dmy") \/ IsDateText(strip(c.s), "iso"))
    THEN Date(DigitVal(strip(c.s)[2]))
    ELSE NoneCell

\* .dt.strftime('%d/%m/%Y') followed by .astype(str): NaT gives 'nan'
strftime_dmy(c) == IF c.k = "date" THEN <<"dmy", DigitChar(c.n.ip)>> ELSE <<"nan">>

\* str(x) / .astype(str) of a date or text cell
astype_str(c) ==
    CASE c.k = "str" -> c.s
      [] c.k = "date" -> <<"iso", DigitChar(c.n.ip)>>
      [] OTHER -> <<"nan">>

(***************************************************************************)
(* Row Consolidator: processar_extrato_individual, section 3               *)
(***************************************************************************)
frases_saldo ==
    << <<"SALDO", " ", "DO", " ", "DIA">>, <<"SALDO", " ", "ANTERIOR">>,
       <<"SALDO", " ", "ATUAL">>, <<"SALDO", " ", "FINAL">> >>

\* any(frase.lower() in texto.lower() for frase in frases)
contem_frase(texto, frases) ==
    \E i \in 1..Len(frases) : Contains(lower(texto), lower(frases[i]))

\* str(row[col]).strip() if pd.notna(row[col]) else ""
cell_text(c) == IF notna(c) THEN strip(astype_str(c)) ELSE <<>>

NoRow == [DATA |-> NoneCell, DOCUMENTO |-> NoneCell, HISTORICO |-> NoneCell, VALOR |-> NoneCell]

ConsolidaInit ==
    [registros_consolidados |-> <<>>, historico_atual |-> <<>>,
     tem_principal |-> FALSE, linha_principal |-> NoRow,
     transacoes_processadas |-> 0, ignorando_continuacoes_credito |-> FALSE]

\* a save that forgets the accumulated description
salvar_principal_sem_historico(st) ==
    IF st.tem_principal
    THEN [st EXCEPT
            !.registros_consolidados = Append(@, st.linha_principal),
            !.transacoes_processadas = @ + 1]
    ELSE st

\* linha_principal['HISTORICO'] = historico_atual.strip(); registros.append(...)
salvar_principal(st) ==
    IF st.tem_principal
    THEN [st EXCEPT
            !.registros_consolidados =
                Append(@, [st.linha_principal EXCEPT !.HISTORICO = Str(strip(st.historico_atual))]),
            !.transacoes_processadas = @ + 1]
    ELSE st

\* an iteration that drops a noise row but not the continuation rows after it
consolida_linha_sem_supressao(st, row) ==
    LET data_str == cell_text(row.DATA)
        historico_str == cell_text(row.HISTORICO)
        valor_str == cell_text(row.VALOR)
        eh_credito == valor_str # <<>> /\ HasTok(upper(valor_str), "C")
        eh_saldo == contem_frase(historico_str, frases_saldo)
    IN  IF data_str # <<>> /\ data_str # <<"nan">>
        THEN IF eh_credito \/ eh_saldo
             THEN st
             ELSE [salvar_principal(st) EXCEPT
                      !.tem_principal = TRUE,
                      !.linha_principal = row,
                      !.historico_atual = historico_str]
        ELSE IF historico_str # <<>>
        THEN IF st.tem_principal /\ ~contem_frase(historico_str, frases_saldo)
             THEN [st EXCEPT !.historico_atual =
                      IF @ # <<>> THEN @ \o <<" ">> \o historico_str ELSE historico_str]
             ELSE st
        ELSE st

\* one iteration of the loop over df_extrato.iterrows()
consolida_linha(st, row) ==
    LET data_str == cell_text(row.DATA)
        historico_str == cell_text(row.HISTORICO)
        valor_str == cell_text(row.VALOR)
        eh_credito == valor_str # <<>> /\ HasTok(upper(valor_str), "C")
        eh_saldo == contem_frase(historico_str, frases_saldo)
    IN  IF data_str # <<>> /\ data_str # <<"nan">>
        THEN IF eh_credito \/ eh_saldo
             THEN [st EXCEPT !.ignorando_continuacoes_credito = TRUE]
             ELSE [salvar_principal(st) EXCEPT
                      !.ignorando_continuacoes_credito = FALSE,
                      !.tem_principal = TRUE,
                      !.linha_principal = row,
                      !.historico_atual = historico_str]
        ELSE IF historico_str # <<>>
        THEN IF st.ignorando_continuacoes_credito THEN st
             ELSE IF st.tem_principal /\ ~contem_frase(historico_str, frases_saldo)
             THEN [st EXCEPT !.historico_atual =
                      IF @ # <<>> THEN @ \o <<" ">> \o historico_str ELSE historico_str]
             ELSE st
        ELSE st

RECURSIVE consolida_de(_, _, _)
consolida_de(rows, i, st) ==
    IF i > Len(rows) THEN salvar_principal(st)
    ELSE consolida_de(rows, i + 1, consolida_linha(st, rows[i]))

consolidar(rows) == consolida_de(rows, 1, ConsolidaInit)

(***************************************************************************)
(* Noise filter and value processing: sections 4 to 7                      *)
(***************************************************************************)
frases_a_ignorar ==
    << <<"SALDO", " ", "DO", " ", "DIA">>, <<"SALDO", " ", "ANTERIOR">>,
       <<"SALDO", " ", "ATUAL">>, <<"SALDO", " ", "FINAL">>,
       <<"saldo", " ", "do", " ", "dia">>, <<"saldo", " ", "anterior">>,
       <<"saldo", " ", "atual">>, <<"saldo", " ", "final">>,
       <<"Saldo", " ", "bloqueado", " ", "anterior">>, <<"Saldo", " ", "bloqueado">>,
       <<"Saldo", " ", "disponível">>, <<"Saldo", " ", "em", " ", "conta">> >>

\* a filter that compares with the letter case of the list
filtrar_frases_com_caixa(regs) ==
    LET achou(t) == \E i \in 1..Len(frases_a_ignorar) : Contains(t, frases_a_ignorar[i])
        fica(r) == ~(r.HISTORICO.k = "str" /\ achou(r.HISTORICO.s))
    IN  SelectSeq(regs, fica)

\* df[~df['HISTORICO'].str.contains(frase, case=False, na=False)] for every frase
filtrar_frases(regs) ==
    LET fica(r) == ~(r.HISTORICO.k = "str" /\ contem_frase(r.HISTORICO.s, frases_a_ignorar))
    IN  SelectSeq(regs, fica)

\* .str.replace(r'\s+', ' ', regex=True).str.strip()
normalizar_historico(c) == IF c.k = "str" THEN Str(strip(collapse_ws(c.s))) ELSE c

\* sections 5 and 6: the debit rows, each with VALOR_PROCESSADO
extrair_debitos(regs) ==
    LET com_data == SelectSeq(regs, LAMBDA r : notna(r.DATA))
        proc == [i \in 1..Len(com_data) |->
                    [DATA |-> com_data[i].DATA,
                     DOCUMENTO |-> com_data[i].DOCUMENTO,
                     HISTORICO |-> normalizar_historico(com_data[i].HISTORICO),
                     VALOR_PROCESSADO |-> processar_formato_valor_sicoob(com_data[i].VALOR)]]
    IN  SelectSeq(proc, LAMBDA r : notna(r.VALOR_PROCESSADO))

\* section 7: the ledger's seven columns
LedgerRow(data, desc, valor, forn, doc, conta, obs) ==
    [data |-> data, desc |-> desc, valor |-> valor, forn |-> forn,
     doc |-> doc, conta |-> conta, obs |-> obs]

mapear_lancamentos(debitos) ==
    [i \in 1..Len(debitos) |->
        LedgerRow(debitos[i].DATA, debitos[i].HISTORICO, debitos[i].VALOR_PROCESSADO,
                  Str(<<>>), debitos[i].DOCUMENTO, Str(<<>>), debitos[i].HISTORICO)]

(***************************************************************************)
(* The workbook as pandas and openpyxl see it.  banco holds the physical   *)
(* rows 2..max_row of sheet "Banco" (row 1 is the header); base holds the  *)
(* rows of sheet "Base de dados", header included.                         *)
(***************************************************************************)
EmptyRow == LedgerRow(NoneCell, NoneCell, NoneCell, NoneCell, NoneCell, NoneCell, NoneCell)

Cols(r) == <<r.data, r.desc, r.valor, r.forn, r.doc, r.conta, r.obs>>

\* openpyxl writes a cell whose value is None or "" as an empty cell
to_disk(c) == IF c.k = "str" /\ c.s = <<>> THEN NoneCell ELSE c

row_to_disk(r) ==
    LedgerRow(to_disk(r.data), to_disk(r.desc), to_disk(r.valor), to_disk(r.forn),
              to_disk(r.doc), to_disk(r.conta), to_disk(r.obs))

\* pandas drops the trailing rows that hold no value at all
RECURSIVE trim_trailing(_)
trim_trailing(rows) ==
    IF rows # <<>> /\ (\A j \in 1..Len(Cols(rows[Len(rows)])) : ~notna(Cols(rows[Len(rows)])[j]))
    THEN trim_trailing(SubSeq(rows, 1, Len(rows) - 1))
    ELSE rows

\* pd.read_excel(caminho_planilha, sheet_name='Banco', engine='openpyxl')
read_banco(banco) == trim_trailing(banco)

\* the app variant and Format B read the sheet inside try/except: an absent sheet
\* gives a frame of no rows
read_banco_ou_vazio(arquivo) == IF arquivo.tem_banco THEN read_banco(arquivo.banco) ELSE <<>>

\* the digits of a natural number, as characters
RECURSIVE nat_str(_)
nat_str(n) == IF n < 10 THEN <<DigitChar(n)>> ELSE nat_str(n \div 10) \o <<DigitChar(n % 10)>>

\* astype(str) of a number: an int64 column prints 100, a float64 column 100.0
num_str(n, is_float) ==
    (IF n.neg THEN <<"-">> ELSE <<>>) \o nat_str(n.ip) \o
    (IF n.fr # <<>> THEN <<".">> \o [i \in 1..Len(n.fr) |-> DigitChar(n.fr[i])]
     ELSE IF is_float THEN <<".", "0">> ELSE <<>>)

IsIntegral(c) == c.k = "num" /\ c.n.fr = <<>>

\* the dtype pandas gives a numeric column read from a sheet: int64 when every
\* cell holds a whole number, float64 as soon as one is empty or fractional
coluna_float(cells) == cells = <<>> \/ \E i \in 1..Len(cells) : ~IsIntegral(cells[i])

\* datetime64 when every cell is a date or empty, object otherwise
coluna_datetime(cells) == \A i \in 1..Len(cells) : cells[i].k \in {"date", "none"}

\* astype(str) of a cell of a date column: a datetime64 column prints the day,
\* an object column holding Timestamps prints day and time
data_str(c, is_datetime) ==
    IF c.k = "date" /\ ~is_datetime THEN astype_str(c) \o <<" ", "00:00:00">>
    ELSE astype_str(c)

valor_str(c, is_float) == IF c.k = "num" THEN num_str(c.n, is_float) ELSE astype_str(c)

(***************************************************************************)
(* Ledger Merger: section 8 (Format A) and section 5 (Format B)            *)
(***************************************************************************)
colunas_para_comparar(r) == notna(r.data) /\ notna(r.desc) /\ notna(r.valor)

\* df.dropna(subset=colunas_para_comparar)
dropna_cmp(rows) == SelectSeq(rows, colunas_para_comparar)

Column(rows, f(_)) == [i \in 1..Len(rows) |-> f(rows[i])]

\* one value of the ID column.  normaliza: Format A normalizes the date column with
\* pd.to_datetime(..., dayfirst=True, errors='coerce').dt.strftime('%d/%m/%Y');
\* Format B does not.  is_dt, is_float: the dtypes of the frame's columns.
id_linha(r, normaliza, is_dt, is_float) ==
    strip(IF normaliza THEN strftime_dmy(to_datetime(r.data)) ELSE data_str(r.data, is_dt))
    \o <<"|">> \o lower(strip(astype_str(r.desc)))
    \o <<"|">> \o valor_str(r.valor, is_float)

\* df_banco_temp['ID']: the dtypes are those of the frame read from the sheet
ids_banco(df_banco, normaliza) ==
    LET is_float == coluna_float(Column(df_banco, LAMBDA r : r.valor))
        is_dt == coluna_datetime(Column(df_banco, LAMBDA r : r.data))
        temp == dropna_cmp(df_banco)
    IN  {id_linha(temp[i], normaliza, is_dt, is_float) : i \in 1..Len(temp)}

RECURSIVE select_idx(_, _, _)
select_idx(s, i, idx) ==
    IF i > Len(s) THEN <<>>
    ELSE (IF i \in idx THEN <<s[i]>> ELSE <<>>) \o select_idx(s, i + 1, idx)

\* a merger that also compares the new entries with each other
sem_duplicatas_entre_si(novos_lancamentos, df_banco, normaliza, is_dt, is_float) ==
    LET novos_temp == dropna_cmp(novos_lancamentos)
        banco_ids == ids_banco(df_banco, normaliza)
        idx == {i \in 1..Len(novos_lancamentos) :
                   /\ id_linha(novos_lancamentos[i], normaliza, is_dt, is_float) \notin banco_ids
                   /\ \A j \in 1..(i - 1) :
                         id_linha(novos_lancamentos[j], normaliza, is_dt, is_float)
                             # id_linha(novos_lancamentos[i], normaliza, is_dt, is_float)}
    IN  IF Len(novos_temp) # Len(novos_lancamentos)
        THEN [ok |-> FALSE, novos |-> <<>>]
        ELSE [ok |-> TRUE, novos |-> select_idx(novos_lancamentos, 1, idx)]

\* novos_lancamentos[~novos_temp['ID'].isin(df_banco_temp['ID'])]: [ok, novos].
\* A boolean Series that lacks a row of the frame it indexes cannot be aligned:
\* pandas raises IndexingError (ok = FALSE).
sem_duplicatas(novos_lancamentos, df_banco, normaliza, is_dt, is_float) ==
    LET novos_temp == dropna_cmp(novos_lancamentos)
        banco_ids == ids_banco(df_banco, normaliza)
        idx == {i \in 1..Len(novos_lancamentos) :
                   id_linha(novos_lancamentos[i], normaliza, is_dt, is_float) \notin banco_ids}
    IN  IF Len(novos_temp) # Len(novos_lancamentos)
        THEN [ok |-> FALSE, novos |-> <<>>]
        ELSE [ok |-> TRUE, novos |-> select_idx(novos_lancamentos, 1, idx)]

(***************************************************************************)
(* Workbook Writer                                                         *)
(***************************************************************************)
\* the emptiness test of the insertion scan: lines 238-243
linha_vazia(r) ==
    \A j \in 1..7 : ~notna(Cols(r)[j]) \/ (Cols(r)[j].k = "str" /\ strip(Cols(r)[j].s) = <<>>)

\* linha_inicio, as an index into banco (sheet row = index + 1): the first empty
\* row after the header, else the row after max_row
linha_inicio(banco) ==
    IF \E i \in 1..Len(banco) : linha_vazia(banco[i])
    THEN CHOOSE i \in 1..Len(banco) :
            linha_vazia(banco[i]) /\ \A j \in 1..(i - 1) : ~linha_vazia(banco[j])
    ELSE Len(banco) + 1

\* column A: a text date is converted with strptime('%d/%m/%Y'); when that raises,
\* and for any other value, the value is stored as it is
celula_data(c) ==
    IF c.k = "str" /\ strptime_dmy(c.s).ok THEN Date(strptime_dmy(c.s).d) ELSE c

linha_escrita(r) == row_to_disk([r EXCEPT !.data = celula_data(r.data)])

\* the sheet after the loop of lines 255-293: entry i goes to row linha_inicio + i
escrever_linhas(banco, novos_dados) ==
    LET ini == linha_inicio(banco)
        fim == IF ini + Len(novos_dados) - 1 > Len(banco)
               THEN ini + Len(novos_dados) - 1 ELSE Len(banco)
    IN  [i \in 1..fim |->
            IF i >= ini /\ i < ini + Len(novos_dados)
            THEN linha_escrita(novos_dados[i - ini + 1])
            ELSE banco[i]]

\* a writer that commits row by row: a lock leaves the first written row behind
salvar_linha_a_linha(antes, depois, bloqueado) ==
    IF bloqueado
    THEN [antes EXCEPT !.banco =
            [i \in 1..Len(@) |-> IF i = linha_inicio(@) THEN depois.banco[i] ELSE @[i]]
            \o (IF linha_inicio(@) > Len(@) /\ Len(depois.banco) > Len(@)
                THEN <<depois.banco[Len(@) + 1]>> ELSE <<>>)]
    ELSE depois

\* wb.save(path): the file is replaced, unless it is open elsewhere (PermissionError)
salvar(antes, depois, bloqueado) == IF bloqueado THEN antes ELSE depois

\* adicionar_dados_preservando_formatacao: [ok (the value returned), wb (the file)].
\* wb['Banco'] raises when the sheet is absent; estilo_falha: copying the
\* reference row's style raises.
adicionar_dados_preservando_formatacao(arquivo, novos_dados, estilo_falha, bloqueado) ==
    LET depois == [arquivo EXCEPT !.banco = escrever_linhas(arquivo.banco, novos_dados)]
    IN  IF ~arquivo.tem_banco \/ estilo_falha THEN [ok |-> FALSE, wb |-> arquivo]
        ELSE [ok |-> ~bloqueado, wb |-> salvar(arquivo, depois, bloqueado)]

\* pandas names an empty header cell "Unnamed: <position>"
cabecalho_pandas(header) ==
    [j \in 1..Len(header) |->
        IF notna(header[j]) THEN header[j] ELSE Str(<<"Unnamed:", " ", DigitChar(j - 1)>>)]

RECURSIVE trim_trailing_cells(_)
trim_trailing_cells(rows) ==
    IF rows # <<>> /\ (\A j \in 1..Len(rows[Len(rows)]) : ~notna(rows[Len(rows)][j]))
    THEN trim_trailing_cells(SubSeq(rows, 1, Len(rows) - 1))
    ELSE rows

\* a sheet read with pd.read_excel(sheet_name=None) and written back with
\* df_sheet.to_excel(writer, sheet_name=..., index=False)
planilha_via_pandas(sheet) ==
    IF sheet = <<>> THEN <<>>
    ELSE <<cabecalho_pandas(Head(sheet))>> \o
         [i \in 1..Len(trim_trailing_cells(Tail(sheet))) |->
             [j \in 1..Len(Tail(sheet)[i]) |-> to_disk(Tail(sheet)[i][j])]]

\* the fallback of lines 655-663
gravar_fallback(arquivo, df_banco, novos) ==
    [banco |-> [i \in 1..(Len(df_banco) + Len(novos)) |->
                   IF i <= Len(df_banco) THEN row_to_disk(df_banco[i])
                   ELSE row_to_disk(novos[i - Len(df_banco)])],
     base |-> planilha_via_pandas(arquivo.base),
     tem_banco |-> TRUE]

\* section 9 of the app variant: the sheet and its header are created when absent,
\* then ws_banco.append(r) for every row, then wb.save
gravar_append(arquivo, novos) ==
    [arquivo EXCEPT !.banco = @ \o [i \in 1..Len(novos) |-> row_to_disk(novos[i])],
                    !.tem_banco = TRUE]

(***************************************************************************)
(* The pipeline functions.  Each returns [res, wb, novos]: the result      *)
(* record handed to the caller (a record whose fields are the dict's       *)
(* keys), the workbook file afterwards, and the deduplicated entries.      *)
(***************************************************************************)
resultado(tp, de, nl, di) ==
    [sucesso |-> TRUE, transacoes_processadas |-> tp, debitos_encontrados |-> de,
     novos_lancamentos |-> nl, duplicatas_ignoradas |-> di]

\* the except branch of processar_extrato_individual
falha_individual(erro) ==
    [sucesso |-> FALSE, erro |-> erro, transacoes_processadas |-> 0,
     debitos_encontrados |-> 0, novos_lancamentos |-> 0, duplicatas_ignoradas |-> 0]

\* the except branch of processar_extrato_novo_formato
falha_novo_formato(erro) == [sucesso |-> FALSE, erro |-> erro]

Saida(r, arquivo, novos) == [res |-> r, wb |-> arquivo, novos |-> novos]

\* a cleaning step that drops nothing
dropna_nenhuma(rows) == rows

\* df_extrato.dropna(how='all')
dropna_all_A(rows) ==
    SelectSeq(rows, LAMBDA r : notna(r.DATA) \/ notna(r.DOCUMENTO)
                                \/ notna(r.HISTORICO) \/ notna(r.VALOR))

\* section 9 of the root variant: the formatting-preserving writer, then the
\* fallback, whose ExcelWriter raises PermissionError on a workbook that is open
gravar_root(arquivo, df_banco, novos, env) ==
    LET w == adicionar_dados_preservando_formatacao(arquivo, novos, env.estilo_falha, env.bloqueado)
    IN  IF w.ok THEN [ok |-> TRUE, wb |-> w.wb]
        ELSE [ok |-> ~env.bloqueado,
              wb |-> salvar(w.wb, gravar_fallback(w.wb, df_banco, novos), env.bloqueado)]

\* section 9 of the app variant: load_workbook, ws_banco.append, wb.save
gravar_app(arquivo, novos, env) ==
    [ok |-> ~env.bloqueado, wb |-> salvar(arquivo, gravar_append(arquivo, novos), env.bloqueado)]

processar_extrato_individual(app, rows, arquivo, env) ==
    LET df_banco == read_banco_ou_vazio(arquivo)
        df_extrato == dropna_all_A(rows)
        st == consolidar(df_extrato)
        tp == st.transacoes_processadas
        debitos == extrair_debitos(filtrar_frases(st.registros_consolidados))
        novos_lancamentos == mapear_lancamentos(debitos)
        sd == sem_duplicatas(novos_lancamentos, df_banco, TRUE, FALSE, TRUE)
        di == Len(novos_lancamentos) - Len(sd.novos)
        w == IF app THEN gravar_app(arquivo, sd.novos, env)
             ELSE gravar_root(arquivo, df_banco, sd.novos, env)
    IN  IF ~app /\ ~arquivo.tem_banco
        THEN Saida(falha_individual("Worksheet named 'Banco' not found"), arquivo, <<>>)
        ELSE IF rows = <<>> THEN Saida(falha_individual("vazio"), arquivo, <<>>)
        ELSE IF df_extrato = <<>> THEN Saida(falha_individual("sem dados"), arquivo, <<>>)
        ELSE IF st.registros_consolidados = <<>> THEN Saida(resultado(0, 0, 0, 0), arquivo, <<>>)
        ELSE IF debitos = <<>> THEN Saida(resultado(tp, 0, 0, 0), arquivo, <<>>)
        ELSE IF ~sd.ok THEN Saida(falha_individual("IndexingError"), arquivo, <<>>)
        ELSE IF sd.novos = <<>> THEN Saida(resultado(tp, Len(debitos), 0, di), arquivo, <<>>)
        ELSE IF ~w.ok THEN Saida(falha_individual("PermissionError"), w.wb, sd.novos)
        ELSE Saida(resultado(tp, Len(debitos), Len(sd.novos), di), w.wb, sd.novos)

\* Format B -----------------------------------------------------------------
dropna_all_B(rows) ==
    SelectSeq(rows, LAMBDA r : notna(r.Data) \/ notna(r.Historico) \/ notna(r.Valor))

\* a comparison that lets zero through
nao_positivo(c) == c.k = "num" /\ (c.n.neg \/ (c.n.ip = 0 /\ c.n.fr = <<>>))

\* df['Valor'] < 0 on a numeric column (NaN compares False)
negativo(c) == c.k = "num" /\ c.n.neg /\ (c.n.ip # 0 \/ c.n.fr # <<>>)

abs(c) == IF c.k = "num" THEN Num([c.n EXCEPT !.neg = FALSE]) ELSE c

mapear_novo_formato(debitos) ==
    [i \in 1..Len(debitos) |->
        LedgerRow(debitos[i].Data, debitos[i].Historico, abs(debitos[i].Valor),
                  Str(<<>>), Str(<<>>), Str(<<>>), debitos[i].Historico)]

processar_extrato_novo_formato(rows, arquivo, env) ==
    LET df_extrato_selecionado == dropna_all_B(rows)
        tp == Len(df_extrato_selecionado)
        df_extrato_debitos == SelectSeq(df_extrato_selecionado, LAMBDA r : negativo(r.Valor))
        novos_lancamentos == mapear_novo_formato(df_extrato_debitos)
        df_banco == read_banco_ou_vazio(arquivo)
        is_dt == coluna_datetime(Column(rows, LAMBDA r : r.Data))
        is_float == coluna_float(Column(rows, LAMBDA r : r.Valor))
        sd == sem_duplicatas(novos_lancamentos, df_banco, FALSE, is_dt, is_float)
        di == Len(novos_lancamentos) - Len(sd.novos)
        w == adicionar_dados_preservando_formatacao(arquivo, sd.novos, FALSE, env.bloqueado)
    IN  IF rows = <<>> THEN Saida(falha_novo_formato("vazio"), arquivo, <<>>)
        ELSE IF df_extrato_selecionado = <<>> THEN Saida(falha_novo_formato("sem dados"), arquivo, <<>>)
        ELSE IF \E i \in 1..Len(rows) : rows[i].Valor.k \notin {"num", "none"}
        THEN Saida(falha_novo_formato("TypeError"), arquivo, <<>>)
        ELSE IF df_extrato_debitos = <<>> THEN Saida(resultado(tp, 0, 0, 0), arquivo, <<>>)
        ELSE IF ~sd.ok THEN Saida(falha_novo_formato("IndexingError"), arquivo, <<>>)
        ELSE IF sd.novos = <<>> THEN Saida(resultado(tp, Len(df_extrato_debitos), 0, di), arquivo, <<>>)
        ELSE Saida(resultado(tp, Len(df_extrato_debitos), Len(sd.novos), di), w.wb, sd.novos)

(***************************************************************************)
(* Inputs.  The statement and the workbook are files the user supplies;    *)
(* the model draws them from the sets below.                               *)
(***************************************************************************)
MaxRows == 2    \* rows of a statement
MaxRuns == 2    \* runs of the pipeline on the same statement and workbook

T(s) == Str(s)

V_125_69_D == Str(<<"-", " ", "1", "2", "5", ",", "6", "9", " ", "D">>)
V_100_00_D == Str(<<"-", " ", "1", "0", "0", ",", "0", "0", " ", "D">>)
V_10_00_D  == Str(<<"1", "0", ",", "0", "0", " ", "D">>)
V_1000_C   == Str(<<"1", ".", "0", "0", "0", ",", "0", "0", " ", "C">>)
V_2794_C   == Str(<<"2", ".", "7", "9", "4", ",", "7", "6", " ", "C">>)

RowA(d, doc, h, v) == [DATA |-> d, DOCUMENTO |-> doc, HISTORICO |-> h, VALOR |-> v]

LinhasA ==
    { RowA(T(<<"dmy", "1">>), T(<<"doc">>), T(<<"PIX">>), V_125_69_D),
      RowA(T(<<"dmy", "1">>), NoneCell, NoneCell, V_100_00_D),
      RowA(NoneCell, NoneCell, T(<<"LOJA">>), NoneCell),
      RowA(T(<<"dmy", "2">>), NoneCell, T(<<"SALDO", " ", "DO", " ", "DIA">>), V_1000_C),
      RowA(Date(2), NoneCell, T(<<"Saldo", " ", " ", "bloqueado">>), V_10_00_D),
      RowA(NoneCell, NoneCell, T(<<"saldo", " ", "anterior">>), NoneCell),
      RowA(T(<<"dmy", "2">>), T(<<"doc">>), T(<<"pix">>), V_2794_C),
      RowA(NoneCell, NoneCell, NoneCell, NoneCell) }

RowB(d, h, v) == [Data |-> d, Historico |-> h, Valor |-> v]

LinhasB ==
    { RowB(Date(1), T(<<"PIX">>), Num(Neg(Dec(125, <<6, 9>>)))),
      RowB(T(<<"dmy", "1">>), T(<<"PIX">>), Num(Neg(Dec(100, <<>>)))),
      RowB(T(<<"dmy", "2">>), T(<<"LOJA">>), Num(Neg(Dec(45, <<5>>)))),
      RowB(Date(2), T(<<"SALDO", " ", "ANTERIOR">>), Num(Neg(Dec(50, <<>>)))),
      RowB(Date(2), T(<<"LOJA">>), Num(Dec(200, <<>>))),
      RowB(NoneCell, T(<<"LOJA">>), Num(Neg(Dec(10, <<>>)))),
      RowB(Date(1), T(<<"LOJA">>), Num(Zero)),
      RowB(NoneCell, NoneCell, NoneCell) }

SeqsUpTo(S, n) == UNION {[1..k -> S] : k \in 0..n}

Variantes == {"A_root", "A_app", "B"}

Extratos(v) == IF v = "B" THEN SeqsUpTo(LinhasB, MaxRows) ELSE SeqsUpTo(LinhasA, MaxRows)

Lanc(d, h, v, doc) == LedgerRow(d, T(h), Num(v), NoneCell, doc, NoneCell, T(h))

\* sheet "Banco" below its header: the basic workbook, a workbook with one entry
\* typed by hand, one whose entry has two blanks inside its description,
\* a workbook with an empty row between two entries
Bancos ==
    { <<>>,
      <<Lanc(Date(1), <<" ", "pix", " ">>, Dec(125, <<6, 9>>), T(<<"doc">>))>>,
      <<Lanc(Date(1), <<"PIX", " ", " ", "LOJA">>, Dec(125, <<6, 9>>), T(<<"doc">>))>>,
      <<Lanc(Date(2), <<"LOJA">>, Dec(80, <<>>), NoneCell), EmptyRow,
        Lanc(Date(2), <<"LOJA">>, Dec(45, <<5>>), NoneCell)>> }

\* sheet "Base de dados": as criar_planilha_basica writes it (cells A1, C1, E1),
\* and a sheet with a full header and one row
BaseBasica ==
    << <<T(<<"Nome">>), NoneCell, T(<<"Conta Contábil">>), NoneCell, T(<<"Colaboradores">>)>> >>

BaseCompleta ==
    << <<T(<<"Nome">>), T(<<"Conta Contábil">>)>>, <<T(<<"ACME">>), T(<<"1.01">>)>> >>

\* a workbook of the user's that has no sheet "Banco"
SemAbaBanco == [banco |-> <<>>, base |-> BaseCompleta, tem_banco |-> FALSE]

Bases == {BaseBasica, BaseCompleta}

\* what the environment does to a run: the style copy of the formatting-preserving
\* writer raises, or the workbook is open in another program
Ambientes(v) ==
    {[estilo_falha |-> FALSE, bloqueado |-> FALSE], [estilo_falha |-> FALSE, bloqueado |-> TRUE]}
    \cup (IF v = "A_root" THEN {[estilo_falha |-> TRUE, bloqueado |-> FALSE]} ELSE {})

Pendente == [k |-> "pendente", s |-> <<>>, n |-> Zero]

(***************************************************************************)
(* Inputs of the value parser.  A composed input is built from the parts   *)
(* of the Format A grammar (sign, blanks, leading digits, thousands        *)
(* groups, decimals, blanks, flag); a free input is any other text.        *)
(***************************************************************************)
MaxGrupos == 1    \* thousands groups of a composed amount

RECURSIVE juntar_grupos(_)
juntar_grupos(gs) == IF gs = <<>> THEN <<>> ELSE <<".">> \o Head(gs) \o juntar_grupos(Tail(gs))

RECURSIVE concat(_)
concat(gs) == IF gs = <<>> THEN <<>> ELSE Head(gs) \o concat(Tail(gs))

Montar(sinal, esp1, lead, grupos, dec, esp2, flag) ==
    [livre |-> FALSE, sinal |-> sinal, esp1 |-> esp1, lead |-> lead, grupos |-> grupos,
     dec |-> dec, esp2 |-> esp2, flag |-> flag,
     valor |-> Str(sinal \o esp1 \o lead \o juntar_grupos(grupos) \o <<",">> \o dec \o esp2 \o <<flag>>)]

Livre(texto) ==
    [livre |-> TRUE, sinal |-> <<>>, esp1 |-> <<>>, lead |-> <<>>, grupos |-> <<>>,
     dec |-> <<>>, esp2 |-> <<>>, flag |-> "", valor |-> texto]

Brancos == {<<>>, <<" ">>, <<" ", " ">>}

EntradasCompostas ==
    { Montar(sinal, esp1, lead, grupos, dec, esp2, flag) :
        sinal \in {<<>>, <<"-">>}, esp1 \in Brancos,
        lead \in {<<"2">>, <<"0">>, <<"2", "5">>, <<"1", "2", "5">>, <<"1", "0", "0">>},
        grupos \in SeqsUpTo({<<"4", "6", "0">>, <<"0", "0", "0">>}, MaxGrupos),
        dec \in {<<"7", "3">>, <<"6", "9">>, <<"0", "0">>, <<"5", "0">>},
        esp2 \in Brancos, flag \in {"D", "C"} }

EntradasLivres ==
    { Livre(NoneCell), Livre(Str(<<>>)), Livre(Str(<<" ">>)), Livre(Str(<<"nan">>)),
      Livre(Str(<<"1", "2", "5", ",", "6", "9">>)),
      Livre(Str(<<"-", "1", "2", "5", ",", "6", "9">>)),
      Livre(Str(<<"1", "2", "5", ",", "6", "9", " ", "d">>)),
      Livre(Str(<<"1", "2", "5", ",", "6", "9", " ", "c">>)),
      Livre(Str(<<"1", "2", "3", "4", ",", "5", "6", " ", "D">>)),
      Livre(Str(<<"1", ".", "2", "3", ",", "5", "6", " ", "D">>)),
      Livre(Str(<<"1", ".", "2", "3", "4", " ", "D">>)),
      Livre(Str(<<"1", "2", ",", "5", " ", "D">>)),
      Livre(Str(<<"1", "2", "5", ",", "6", "9", "D", "X">>)),
      Livre(Str(<<"-", " ", "-", "5", " ", "D">>)),
      Livre(Str(<<"-", " ", "1", "2", "5", ",", "6", "9", " ", "c">>)),
      Livre(Str(<<"C", " ", "5", ",", "0", "0", " ", "D">>)),
      Livre(Str(<<"-", "5", " ", "c", "D">>)),
      Livre(Str(<<"5", " ", "-", " ", "D">>)),
      Livre(Str(<<"-", ".", "5">>)),
      Livre(Str(<<"R", "$", " ", "1", "2", " ", "5", ",", "6", "9", " ", "D">>)),
      Livre(Str(<<"D">>)), Livre(Str(<<"-">>)), Livre(Str(<<"X">>)) }

EntradasParser == EntradasCompostas \cup EntradasLivres

PinNenhum == Livre(NoneCell)

ConsNenhum ==
    [fase |-> "nenhuma", i |-> 0, st |-> ConsolidaInit, filtrados |-> <<>>, debitos |-> <<>>]

\* files on disk: a workbook path holds a workbook or nothing
Ausente == [existe |-> FALSE, wb |-> [banco |-> <<>>, base |-> <<>>, tem_banco |-> FALSE]]

Arquivo(w) == [existe |-> TRUE, wb |-> w]

NenhumCaminho == [pasta |-> "", nome |-> <<>>]

NenhumExtrato == [pasta |-> "", nome |-> "", ext |-> ""]

\* no merge under way
MesNenhum ==
    [fase |-> "nenhuma", formato |-> "A", novos |-> <<>>, banco |-> <<>>, is_float |-> TRUE,
     ok |-> FALSE, sem_duplicatas |-> <<>>]

\* a table that was never read
SemTabela == [lida |-> FALSE, cabecalho |-> 0, linhas |-> <<>>, colunas |-> 0]

ArquivoNenhum == [excel |-> FALSE, n |-> 0, colunas |-> 0, sep |-> ",", bytes |-> "ascii"]

\* no decoding under way
DcdNenhum ==
    [fase |-> "nenhuma", formato |-> "A_root", arquivo |-> ArquivoNenhum, detector |-> "erro",
     i |-> 0, via |-> "", df_extrato |-> SemTabela, csv_lido |-> FALSE, tentativas |-> <<>>,
     erro |-> ""]

SessNenhuma ==
    [modo |-> "nenhum", pc |-> "fim", fs |-> <<>>, fs0 |-> <<>>, planilha |-> NenhumCaminho,
     extrato |-> NenhumExtrato, extratos |-> <<>>, pasta |-> "", i |-> 0,
     cancelado |-> FALSE, iniciou |-> FALSE, resultados |-> <<>>]

NoRun == [novos |-> <<>>, env |-> [estilo_falha |-> FALSE, bloqueado |-> FALSE]]

(***************************************************************************)
(* Specification of the pipeline: one statement, processed up to MaxRuns   *)
(* times against the same workbook.                                        *)
(***************************************************************************)
Init ==
    /\ variant \in Variantes
    /\ stmt \in Extratos(variant)
    /\ wb \in [banco : Bancos, base : Bases, tem_banco : {TRUE}] \cup {SemAbaBanco}
    /\ pre = wb
    /\ res = [sucesso |-> FALSE, erro |-> "nenhuma execucao"]
    /\ run = NoRun
    /\ hist = <<>>
    /\ pin = PinNenhum
    /\ pout = Pendente
    /\ cons = ConsNenhum
    /\ sess = SessNenhuma
    /\ mes = MesNenhum
    /\ dcd = DcdNenhum

Concluir(out, env) ==
    /\ pre' = wb
    /\ wb' = out.wb
    /\ res' = out.res
    /\ run' = [novos |-> out.novos, env |-> env]
    /\ hist' = Append(hist, out.res)
    /\ UNCHANGED <<variant, stmt, pin, pout, cons, sess, mes, dcd>>

ProcessarRoot ==
    /\ variant = "A_root" /\ Len(hist) < MaxRuns
    /\ \E env \in Ambientes(variant) :
          Concluir(processar_extrato_individual(FALSE, stmt, wb, env), env)

ProcessarApp ==
    /\ variant = "A_app" /\ Len(hist) < MaxRuns
    /\ \E env \in Ambientes(variant) :
          Concluir(processar_extrato_individual(TRUE, stmt, wb, env), env)

ProcessarNovoFormato ==
    /\ variant = "B" /\ Len(hist) < MaxRuns
    /\ \E env \in Ambientes(variant) :
          Concluir(processar_extrato_novo_formato(stmt, wb, env), env)

Next == ProcessarRoot \/ ProcessarApp \/ ProcessarNovoFormato

Spec == Init /\ [][Next]_vars

(***************************************************************************)
(* Specification of the value parser alone: one input, parsed once.        *)
(***************************************************************************)
InitParser ==
    /\ variant = "A_root"
    /\ stmt = <<>>
    /\ wb = [banco |-> <<>>, base |-> BaseBasica, tem_banco |-> TRUE]
    /\ pre = wb
    /\ res = [sucesso |-> FALSE, erro |-> "nenhuma execucao"]
    /\ run = NoRun
    /\ hist = <<>>
    /\ pin \in EntradasParser
    /\ pout = Pendente
    /\ cons = ConsNenhum
    /\ sess = SessNenhuma
    /\ mes = MesNenhum
    /\ dcd = DcdNenhum

AplicarParser ==
    /\ pout = Pendente
    /\ pout' = processar_formato_valor_sicoob(pin.valor)
    /\ UNCHANGED <<variant, stmt, wb, pre, res, run, hist, pin, cons, sess, mes, dcd>>

NextParser == AplicarParser

SpecParser == InitParser /\ [][NextParser]_vars

(***************************************************************************)
(* Specification of sections 3 to 6 of processar_extrato_individual alone: *)
(* the loop over the rows of the cleaned statement, one row per step, then *)
(* the phrase filter and the value processing.  The row at position i      *)
(* carries the word Tag(i), so that its text can be followed.              *)
(***************************************************************************)
MaxLinhas == 3    \* rows of a cleaned statement

Tag(i) ==
    CASE i = 1 -> "r1" [] i = 2 -> "r2" [] i = 3 -> "r3" [] i = 4 -> "r4"
      [] i = 5 -> "r5" [] OTHER -> "r6"

LinhasC(i) ==
    { RowA(T(<<"dmy", "1">>), T(<<Tag(i)>>), T(<<"PIX", " ", Tag(i)>>), V_125_69_D),
      RowA(Date(2), T(<<Tag(i)>>), NoneCell, V_100_00_D),
      RowA(NoneCell, NoneCell, T(<<"LOJA", " ", Tag(i)>>), NoneCell),
      RowA(T(<<"dmy", "2">>), T(<<Tag(i)>>), T(<<"pix", " ", Tag(i)>>), V_2794_C),
      RowA(T(<<"dmy", "2">>), T(<<Tag(i)>>), T(<<"Saldo", " ", "do", " ", "dia", " ", Tag(i)>>), V_10_00_D),
      RowA(NoneCell, NoneCell, T(<<Tag(i), " ", "saldo", " ", "anterior">>), NoneCell),
      RowA(NoneCell, NoneCell, T(<<"Saldo", " ", "bloqueado", " ", Tag(i)>>), NoneCell),
      RowA(T(<<"dmy", "1">>), T(<<Tag(i)>>), T(<<Tag(i), " ", "SALDO", " ", "EM", " ", "CONTA">>), V_10_00_D),
      RowA(Date(2), T(<<Tag(i)>>), T(<<"Saldo", " ", " ", "bloqueado">>), V_10_00_D),
      RowA(NoneCell, T(<<Tag(i)>>), NoneCell, V_10_00_D) }

RECURSIVE ExtratosDe(_)
ExtratosDe(k) ==
    IF k = 0 THEN {<<>>}
    ELSE {Append(s, r) : s \in ExtratosDe(k - 1), r \in LinhasC(k)}

ExtratosLimpos == UNION {ExtratosDe(k) : k \in 1..MaxLinhas}

InitConsolidador ==
    /\ variant = "A_root"
    /\ stmt \in ExtratosLimpos
    /\ wb = [banco |-> <<>>, base |-> BaseBasica, tem_banco |-> TRUE]
    /\ pre = wb
    /\ res = [sucesso |-> FALSE, erro |-> "nenhuma execucao"]
    /\ run = NoRun
    /\ hist = <<>>
    /\ pin = PinNenhum
    /\ pout = Pendente
    /\ cons = [ConsNenhum EXCEPT !.fase = "linhas", !.i = 1]
    /\ sess = SessNenhuma
    /\ mes = MesNenhum
    /\ dcd = DcdNenhum

\* one iteration of `for index, row in df_extrato.iterrows()`
ConsolidarLinha ==
    /\ cons.fase = "linhas" /\ cons.i <= Len(stmt)
    /\ cons' = [cons EXCEPT !.st = consolida_linha(@, stmt[cons.i]), !.i = @ + 1]
    /\ UNCHANGED <<variant, stmt, wb, pre, res, run, hist, pin, pout, sess, mes, dcd>>

\* after the loop: the last main row is saved
FinalizarConsolidacao ==
    /\ cons.fase = "linhas" /\ cons.i > Len(stmt)
    /\ cons' = [cons EXCEPT !.st = salvar_principal(@), !.fase = "consolidado"]
    /\ UNCHANGED <<variant, stmt, wb, pre, res, run, hist, pin, pout, sess, mes, dcd>>

\* section 4
FiltrarFrases ==
    /\ cons.fase = "consolidado"
    /\ cons' = [cons EXCEPT !.filtrados = filtrar_frases(cons.st.registros_consolidados),
                            !.fase = "filtrado"]
    /\ UNCHANGED <<variant, stmt, wb, pre, res, run, hist, pin, pout, sess, mes, dcd>>

\* sections 5 and 6
ExtrairDebitos ==
    /\ cons.fase = "filtrado"
    /\ cons' = [cons EXCEPT !.debitos = extrair_debitos(cons.filtrados), !.fase = "debitos"]
    /\ UNCHANGED <<variant, stmt, wb, pre, res, run, hist, pin, pout, sess, mes, dcd>>

NextConsolidador ==
    ConsolidarLinha \/ FinalizarConsolidacao \/ FiltrarFrases \/ ExtrairDebitos

SpecConsolidador == InitConsolidador /\ [][NextConsolidador]_vars

(***************************************************************************)
(* Specification of a session of the menu: processar_extrato_unico (root), *)
(* chamar_processar_novo_formato (app) and processar_multiplos_extratos     *)
(* (root).  Every dialog is a step whose answer is a choice of the user;   *)
(* the files on disk are sess.fs.                                          *)
(***************************************************************************)
MaxArquivos == 2    \* statement files selected in batch mode

\* statement files the user can select: folder, base name, extension
ArquivosExtrato ==
    { [pasta |-> "a", nome |-> "jan", ext |-> "xlsx"],
      [pasta |-> "b", nome |-> "jan", ext |-> "xlsx"],
      [pasta |-> "a", nome |-> "jan", ext |-> "csv"],
      [pasta |-> "a", nome |-> "fev", ext |-> "xlsx"] }

\* the word that marks the one transaction of a statement file
Marca(f) == <<f.pasta, f.nome, f.ext>>

ConteudoA(f) == <<RowA(T(<<"dmy", "1">>), T(Marca(f)), T(<<"PIX">>), V_125_69_D)>>

ConteudoB(f) == <<RowB(Date(1), T(Marca(f)), Num(Neg(Dec(125, <<6, 9>>))))>>

\* os.path.join(pasta_destino, f"Processado_{nome_sem_ext}.xlsx")
caminho_planilha(pasta_destino, f) == [pasta |-> pasta_destino, nome |-> <<"Processado_", f.nome>>]

PastasDestino == {"out"}

CaminhosUsuario == {[pasta |-> "docs", nome |-> <<"controle">>]}

Caminhos == CaminhosUsuario \cup {caminho_planilha(d, f) : d \in PastasDestino, f \in ArquivosExtrato}

\* the template shipped with the program, and what criar_planilha_basica writes
PlanilhaModelo == [banco |-> <<>>, base |-> BaseCompleta, tem_banco |-> TRUE]

PlanilhaBasica == [banco |-> <<>>, base |-> BaseBasica, tem_banco |-> TRUE]

\* a workbook left at a path by an earlier session
PlanilhaAntiga ==
    [banco |-> <<Lanc(Date(2), <<"LOJA">>, Dec(45, <<5>>), NoneCell)>>,
     base |-> BaseCompleta, tem_banco |-> TRUE]

\* the body of criar_planilha_usuario after the dialog, and
\* criar_nova_planilha_silenciosa: the template is copied over the path, or the
\* basic workbook is written; falha: the copy or the save raises
criar_nova_planilha_silenciosa(fs, caminho_destino, tem_modelo, falha) ==
    IF falha THEN fs
    ELSE [fs EXCEPT ![caminho_destino] =
             Arquivo(IF tem_modelo THEN PlanilhaModelo ELSE PlanilhaBasica)]

SelecoesDe(n) ==
    {sel \in SeqsUpTo(ArquivosExtrato, n) :
        sel # <<>> /\ \A i, j \in 1..Len(sel) : i # j => sel[i] # sel[j]}

InitSessao ==
    /\ variant = "A_root"
    /\ stmt = <<>>
    /\ wb = [banco |-> <<>>, base |-> BaseBasica, tem_banco |-> TRUE]
    /\ pre = wb
    /\ res = [sucesso |-> FALSE, erro |-> "nenhuma execucao"]
    /\ run = NoRun
    /\ hist = <<>>
    /\ pin = PinNenhum
    /\ pout = Pendente
    /\ cons = ConsNenhum
    /\ mes = MesNenhum
    /\ dcd = DcdNenhum
    /\ \E modo \in {"unico", "novo", "lote"}, fs \in [Caminhos -> {Ausente, Arquivo(PlanilhaAntiga)}] :
          sess = [SessNenhuma EXCEPT !.modo = modo, !.fs = fs, !.fs0 = fs,
                     !.pc = IF modo = "lote" THEN "extratos" ELSE "planilha"]

Pipeline == <<variant, stmt, wb, pre, res, run, hist, pin, pout, cons, mes, dcd>>

\* criar_planilha_usuario: the save dialog, then the workbook is created.  The root
\* variant passes the option initialvalue, which the dialog may reject (erro_dialogo)
CriarPlanilhaUsuario ==
    /\ sess.pc = "planilha"
    /\ \/ /\ sess.modo = "unico"
          /\ sess' = [sess EXCEPT !.pc = "fim"]
       \/ sess' = [sess EXCEPT !.pc = "fim", !.cancelado = TRUE]
       \/ \E c \in CaminhosUsuario, tem_modelo \in BOOLEAN, falha \in BOOLEAN :
             sess' = [sess EXCEPT
                         !.fs = criar_nova_planilha_silenciosa(@, c, tem_modelo, falha),
                         !.planilha = IF falha THEN NenhumCaminho ELSE c,
                         !.pc = IF falha THEN "fim" ELSE "extrato"]
    /\ UNCHANGED Pipeline

\* filedialog.askopenfilename of the single modes
SelecionarExtrato ==
    /\ sess.pc = "extrato"
    /\ \/ sess' = [sess EXCEPT !.pc = "fim", !.cancelado = TRUE]
       \/ \E f \in ArquivosExtrato : sess' = [sess EXCEPT !.extrato = f, !.pc = "processar"]
    /\ UNCHANGED Pipeline

\* after the pipeline call of a single mode: the workbook on disk is the one the
\* pipeline left
ConcluirUnico(out) ==
    /\ sess' = [sess EXCEPT !.fs[sess.planilha] = Arquivo(out.wb),
                            !.iniciou = TRUE,
                            !.resultados = Append(@, out.res),
                            !.pc = "fim"]
    /\ UNCHANGED Pipeline

\* processar_extrato_unico, step 3
ProcessarUnico ==
    /\ sess.pc = "processar" /\ sess.modo = "unico"
    /\ \E env \in Ambientes("A_root") :
          ConcluirUnico(processar_extrato_individual(
              FALSE, ConteudoA(sess.extrato), sess.fs[sess.planilha].wb, env))

\* chamar_processar_novo_formato, step 3
ProcessarNovo ==
    /\ sess.pc = "processar" /\ sess.modo = "novo"
    /\ \E env \in Ambientes("B") :
          ConcluirUnico(processar_extrato_novo_formato(
              ConteudoB(sess.extrato), sess.fs[sess.planilha].wb, env))

\* filedialog.askopenfilenames of the batch mode
SelecionarExtratos ==
    /\ sess.pc = "extratos"
    /\ \/ sess' = [sess EXCEPT !.pc = "fim", !.cancelado = TRUE]
       \/ \E sel \in SelecoesDe(MaxArquivos) : sess' = [sess EXCEPT !.extratos = sel, !.pc = "pasta"]
    /\ UNCHANGED Pipeline

\* filedialog.askdirectory of the batch mode
SelecionarPasta ==
    /\ sess.pc = "pasta"
    /\ \/ sess' = [sess EXCEPT !.pc = "fim", !.cancelado = TRUE]
       \/ \E d \in PastasDestino : sess' = [sess EXCEPT !.pasta = d, !.i = 1, !.pc = "lote"]
    /\ UNCHANGED Pipeline

\* the end of one iteration of the loop of processar_multiplos_extratos
ConcluirProximo(fs, r) ==
    /\ sess' = [sess EXCEPT !.fs = fs,
                            !.iniciou = TRUE,
                            !.resultados = Append(@, r),
                            !.i = @ + 1,
                            !.pc = IF sess.i = Len(sess.extratos) THEN "fim" ELSE "lote"]
    /\ UNCHANGED Pipeline

\* the workbook the pipeline left is the file at path c
Gravada(fs, c, out) == ConcluirProximo([fs EXCEPT ![c] = Arquivo(out.wb)], out.res)

\* the workbook of the file has been created at path c: the file is processed into it
ProcessarNaPlanilha(fs, c, f, env) ==
    Gravada(fs, c, processar_extrato_individual(FALSE, ConteudoA(f), fs[c].wb, env))

\* one iteration of the loop of processar_multiplos_extratos: the workbook of the
\* file is created, then the file is processed into it; an exception while creating
\* counts one failure
ProcessarProximo ==
    /\ sess.pc = "lote"
    /\ \/ ConcluirProximo(sess.fs, falha_individual("erro ao criar"))
       \/ \E env \in Ambientes("A_root"), tem_modelo \in BOOLEAN :
             ProcessarNaPlanilha(
                 criar_nova_planilha_silenciosa(
                     sess.fs, caminho_planilha(sess.pasta, sess.extratos[sess.i]),
                     tem_modelo, FALSE),
                 caminho_planilha(sess.pasta, sess.extratos[sess.i]),
                 sess.extratos[sess.i], env)

NextSessao ==
    \/ CriarPlanilhaUsuario \/ SelecionarExtrato \/ ProcessarUnico \/ ProcessarNovo
    \/ SelecionarExtratos \/ SelecionarPasta \/ ProcessarProximo

SpecSessao == InitSessao /\ [][NextSessao]_vars

(***************************************************************************)
(* Specification of the ledger merger alone: section 8 of                  *)
(* processar_extrato_individual (formato "A") and section 5 of             *)
(* processar_extrato_novo_formato (formato "B"), applied once to new       *)
(* entries and to the rows of sheet "Banco".                               *)
(***************************************************************************)
MaxNovos == 2    \* new entries handed to the merger
MaxBanco == 2    \* rows of sheet "Banco" the merger reads

V_125_69 == Dec(125, <<6, 9>>)

\* new entries: dates that are no dates, a date as text, a typed date, a whole amount
EntradasMesclador ==
    { Lanc(T(<<"abc">>), <<"PIX">>, V_125_69, T(<<"doc">>)),
      Lanc(T(<<"xyz">>), <<"PIX">>, V_125_69, T(<<"doc">>)),
      Lanc(T(<<"dmy", "1">>), <<"PIX">>, V_125_69, T(<<"doc">>)),
      Lanc(Date(1), <<"PIX">>, V_125_69, T(<<"doc">>)),
      Lanc(T(<<"dmy", "1">>), <<"LOJA">>, Dec(100, <<>>), NoneCell) }

\* rows of the sheet: a date kept as text because it is no date, typed dates
LinhasBanco ==
    { Lanc(T(<<"xyz">>), <<"PIX">>, V_125_69, T(<<"doc">>)),
      Lanc(Date(1), <<"PIX">>, V_125_69, T(<<"doc">>)),
      Lanc(Date(1), <<"LOJA">>, Dec(100, <<>>), NoneCell) }

InitMesclador ==
    /\ variant = "A_root"
    /\ stmt = <<>>
    /\ wb = [banco |-> <<>>, base |-> BaseBasica, tem_banco |-> TRUE]
    /\ pre = wb
    /\ res = [sucesso |-> FALSE, erro |-> "nenhuma execucao"]
    /\ run = NoRun
    /\ hist = <<>>
    /\ pin = PinNenhum
    /\ pout = Pendente
    /\ cons = ConsNenhum
    /\ sess = SessNenhuma
    /\ dcd = DcdNenhum
    /\ \E formato \in {"A", "B"}, novos \in SeqsUpTo(EntradasMesclador, MaxNovos),
          banco \in SeqsUpTo(LinhasBanco, MaxBanco), is_float \in BOOLEAN :
          /\ novos # <<>>
          \* the amounts of Format A come from float(); a Format B column that holds
          \* a fraction is a float column
          /\ (formato = "A" \/ \E i \in 1..Len(novos) : ~IsIntegral(novos[i].valor)) => is_float
          /\ mes = [MesNenhum EXCEPT !.fase = "entrada", !.formato = formato,
                       !.novos = novos, !.banco = banco, !.is_float = is_float]

\* the comparison of the new entries with the rows of the sheet
Mesclar ==
    /\ mes.fase = "entrada"
    /\ LET sd == sem_duplicatas(mes.novos, read_banco(mes.banco), mes.formato = "A",
                                coluna_datetime(Column(mes.novos, LAMBDA r : r.data)),
                                mes.is_float)
       IN  mes' = [mes EXCEPT !.fase = "mesclado", !.ok = sd.ok, !.sem_duplicatas = sd.novos]
    /\ UNCHANGED <<variant, stmt, wb, pre, res, run, hist, pin, pout, cons, sess, dcd>>

NextMesclador == Mesclar

SpecMesclador == InitMesclador /\ [][NextMesclador]_vars

(***************************************************************************)
(* Specification of the statement decoder alone: section 1 and the column  *)
(* check of section 2 of processar_extrato_individual, both variants, and  *)
(* sections 1 and 2 of processar_extrato_novo_formato.  The file is known  *)
(* by what decides the outcome of a read: whether it is a workbook, how    *)
(* many physical rows and columns it has, its separator and which          *)
(* encodings decode its bytes.  A physical row is known by its position.   *)
(***************************************************************************)
MaxFisicas == 4    \* physical rows of a statement file

\* the bytes of the file: plain ASCII; valid UTF-8 with accents; Latin-1 accents
\* (no valid UTF-8); valid UTF-8 holding the byte 0x81, which Windows-1252 does not
\* define; bytes that are neither valid UTF-8 nor defined in Windows-1252
ClassesDeBytes == {"ascii", "utf8", "latin1", "utf8_81", "binario"}

\* bytes.decode(encoding) succeeds
decodifica(bytes, encoding) ==
    CASE encoding \in {"windows-1252", "cp1252"} -> bytes \in {"ascii", "utf8", "latin1"}
      [] encoding \in {"iso-8859-1", "ISO-8859-1"} -> TRUE
      [] encoding \in {"utf-8", "utf-8-sig", "None"} -> bytes \in {"ascii", "utf8", "utf8_81"}
      [] OTHER -> FALSE

\* what chardet answers: the import fails, detect raises, no encoding, an encoding
Detectores == {"indisponivel", "erro", "nenhum", "utf-8", "ISO-8859-1"}

ArquivosDecodificador ==
    [excel : BOOLEAN, n : 0..MaxFisicas, colunas : {2, 3, 4}, sep : {",", ";"},
     bytes : ClassesDeBytes]

estrategias_csv ==
    << [sep |-> ",", encoding |-> "windows-1252"],
       [sep |-> ",", encoding |-> "cp1252"],
       [sep |-> ",", encoding |-> "iso-8859-1"],
       [sep |-> ";", encoding |-> "windows-1252"],
       [sep |-> ",", encoding |-> "utf-8-sig"],
       [sep |-> ",", encoding |-> "None"],
       [sep |-> ",", encoding |-> "utf-8"] >>

\* the rows from position a to the end of the file
LinhasDesde(a, n) == [k \in 1..(IF n >= a THEN n - a + 1 ELSE 0) |-> a + k - 1]

\* pd.read_excel(caminho, skiprows=k, header=0): the row after the skipped ones
\* gives the column names, the rows after it are the data
read_excel(arquivo, skiprows) ==
    IF ~arquivo.excel THEN [ok |-> FALSE, df |-> SemTabela]
    ELSE IF arquivo.n <= skiprows
    THEN [ok |-> TRUE, df |-> [lida |-> TRUE, cabecalho |-> 0, linhas |-> <<>>, colunas |-> 0]]
    ELSE [ok |-> TRUE,
          df |-> [lida |-> TRUE, cabecalho |-> skiprows + 1,
                  linhas |-> LinhasDesde(skiprows + 2, arquivo.n), colunas |-> arquivo.colunas]]

\* pd.read_csv(caminho, skiprows=k, header=None or inferred, sep, encoding): raises
\* when the bytes do not decode or nothing is left to parse; a separator that is
\* not the file's leaves one column
read_csv(arquivo, skiprows, com_cabecalho, sep, encoding) ==
    IF ~decodifica(arquivo.bytes, encoding) \/ arquivo.n <= skiprows
    THEN [ok |-> FALSE, df |-> SemTabela]
    ELSE [ok |-> TRUE,
          df |-> [lida |-> TRUE,
                  cabecalho |-> IF com_cabecalho THEN skiprows + 1 ELSE 0,
                  linhas |-> LinhasDesde(skiprows + (IF com_cabecalho THEN 2 ELSE 1), arquivo.n),
                  colunas |-> IF sep = arquivo.sep THEN arquivo.colunas ELSE 1]]

\* the encoding of the auto-detected strategy.  root 377-393: the detected value is
\* used as it is, None included; app 390-399: `detected_encoding or 'windows-1252'`
codificacao_detectada(app, detector) ==
    CASE detector \in {"indisponivel", "erro"} -> "windows-1252"
      [] detector = "nenhum" -> IF app THEN "windows-1252" ELSE "None"
      [] OTHER -> detector

\* a test that accepts every table that was read
aceita_qualquer(df) == TRUE

\* `not df.empty and df.shape[1] >= 3`
aceita(df) == df.linhas # <<>> /\ df.colunas >= 3

InitDecodificador ==
    /\ variant = "A_root"
    /\ stmt = <<>>
    /\ wb = [banco |-> <<>>, base |-> BaseBasica, tem_banco |-> TRUE]
    /\ pre = wb
    /\ res = [sucesso |-> FALSE, erro |-> "nenhuma execucao"]
    /\ run = NoRun
    /\ hist = <<>>
    /\ pin = PinNenhum
    /\ pout = Pendente
    /\ cons = ConsNenhum
    /\ sess = SessNenhuma
    /\ mes = MesNenhum
    /\ \E formato \in Variantes, arquivo \in ArquivosDecodificador, detector \in Detectores :
          dcd = [DcdNenhum EXCEPT !.fase = "excel", !.formato = formato,
                    !.arquivo = arquivo, !.detector = detector]

Resto == <<variant, stmt, wb, pre, res, run, hist, pin, pout, cons, sess, mes>>

\* the first read: pd.read_excel, skipping 1 row (Format A) or 2 (Format B)
LerExcel ==
    /\ dcd.fase = "excel"
    /\ LET r == read_excel(dcd.arquivo, IF dcd.formato = "B" THEN 2 ELSE 1)
       IN  dcd' = IF r.ok
                  THEN [dcd EXCEPT !.df_extrato = r.df, !.via = "excel", !.fase = "lido"]
                  ELSE [dcd EXCEPT !.fase = IF dcd.formato = "B" THEN "csv_b" ELSE "csv",
                                   !.i = 1]
    /\ UNCHANGED Resto

\* one iteration of `for i, estrategia in enumerate(estrategias_csv)`
TentarCSV ==
    /\ dcd.fase = "csv" /\ dcd.i <= Len(estrategias_csv)
    /\ LET app == dcd.formato = "A_app"
           estrategia == estrategias_csv[dcd.i]
           encoding == IF estrategia.encoding = "None"
                       THEN codificacao_detectada(app, dcd.detector)
                       ELSE estrategia.encoding
           r == read_csv(dcd.arquivo, 1, FALSE, estrategia.sep, encoding)
           aceito == r.ok /\ aceita(r.df)
           t == [sep |-> estrategia.sep, encoding |-> encoding,
                 resultado |-> IF ~r.ok THEN "erro" ELSE IF aceito THEN "aceita" ELSE "rejeitada"]
       IN  dcd' = [dcd EXCEPT
                      \* the root assigns df_extrato at every read, the app only on acceptance
                      !.df_extrato = IF r.ok /\ (aceito \/ ~app) THEN r.df ELSE @,
                      !.tentativas = Append(@, t),
                      !.csv_lido = aceito,
                      !.via = IF aceito THEN "csv" ELSE @,
                      !.i = @ + 1,
                      !.fase = IF aceito THEN "lido" ELSE "csv"]
    /\ UNCHANGED Resto

\* after the loop: `if not csv_lido: raise Exception(...)`
FalharLeitura ==
    /\ dcd.fase = "csv" /\ dcd.i > Len(estrategias_csv)
    /\ dcd' = [dcd EXCEPT !.fase = "falha", !.df_extrato = SemTabela,
                          !.erro = "Não foi possível ler o arquivo"]
    /\ UNCHANGED Resto

\* Format B: pd.read_csv(caminho, skiprows=2, encoding='utf-8', sep=';'); an exception
\* ends the run in the outer handler
LerCSVNovoFormato ==
    /\ dcd.fase = "csv_b"
    /\ LET r == read_csv(dcd.arquivo, 2, TRUE, ";", "utf-8")
       IN  dcd' = IF r.ok
                  THEN [dcd EXCEPT !.df_extrato = r.df, !.via = "csv", !.fase = "lido",
                                   !.tentativas = <<[sep |-> ";", encoding |-> "utf-8",
                                                     resultado |-> "aceita"]>>]
                  ELSE [dcd EXCEPT !.fase = "falha", !.erro = "read_csv",
                                   !.tentativas = <<[sep |-> ";", encoding |-> "utf-8",
                                                     resultado |-> "erro"]>>]
    /\ UNCHANGED Resto

\* section 2: the column check and the emptiness check; the table that passes them
\* is the one the later sections work on
PrepararColunas ==
    /\ dcd.fase = "lido"
    /\ LET df == dcd.df_extrato
           minimo == IF dcd.formato = "B" THEN 4 ELSE 3
       IN  dcd' = IF dcd.formato = "B" /\ df.linhas = <<>>
                  THEN [dcd EXCEPT !.fase = "falha", !.erro = "Arquivo vazio"]
                  ELSE IF df.colunas < minimo
                  THEN [dcd EXCEPT !.fase = "falha", !.erro = "estrutura inesperada"]
                  ELSE IF df.linhas = <<>>
                  THEN [dcd EXCEPT !.fase = "falha", !.erro = "O arquivo está vazio"]
                  ELSE [dcd EXCEPT !.fase = "pronto"]
    /\ UNCHANGED Resto

NextDecodificador ==
    LerExcel \/ TentarCSV \/ FalharLeitura \/ LerCSVNovoFormato \/ PrepararColunas

SpecDecodificador == InitDecodificador /\ [][NextDecodificador]_vars

(***************************************************************************)
(* Properties                                                              *)
(***************************************************************************)
Executou == Len(hist) >= 1

FormatoA == variant \in {"A_root", "A_app"}

\* the rows of sheet "Banco" the last run wrote: new positions and changed rows
LinhasGravadas ==
    {i \in 1..Len(wb.banco) : i > Len(pre.banco) \/ wb.banco[i] # pre.banco[i]}

Contagens ==
    {"transacoes_processadas", "debitos_encontrados", "novos_lancamentos", "duplicatas_ignoradas"}

\* C1: Format A idempotence.  When a run on statement S succeeded, the next run on
\* S against the ledger it left finds nothing new: newEntries = 0,
\* duplicatesSkipped = debitsFound, and the ledger is not written.
C1_Idempotence ==
    (FormatoA /\ Len(hist) >= 2 /\ hist[Len(hist) - 1].sucesso)
        => /\ run.novos = <<>>
           /\ res.novos_lancamentos = 0
           /\ res.duplicatas_ignoradas = res.debitos_encontrados
           /\ wb.banco = pre.banco

\* C2: frame.  After any run, every sheet other than "Banco" ("Base de dados")
\* holds what it held before the run.
C2_OtherSheetsUntouched == wb.base = pre.base

\* C3: append-only.  Every row that was non-empty before the run is at the same
\* position with the same cell values after it.
C3_AppendOnly ==
    \A i \in 1..Len(pre.banco) :
        ~linha_vazia(pre.banco[i]) => (i <= Len(wb.banco) /\ wb.banco[i] = pre.banco[i])

\* the deduplicated entries of the last run stand in the sheet, in order, in
\* consecutive rows
TodosGravados ==
    \E ini \in 1..(Len(wb.banco) + 1) :
        \A k \in 1..Len(run.novos) :
            /\ ini + k - 1 <= Len(wb.banco)
            /\ wb.banco[ini + k - 1] \in {linha_escrita(run.novos[k]), row_to_disk(run.novos[k])}

\* C4: no partial write.  After any run the persisted ledger holds all of the run's
\* deduplicated new entries or exactly the rows it held before; a run that returns
\* success = false leaves the rows as they were.
C4_NoPartialWrite ==
    Executou =>
        /\ wb.banco = pre.banco \/ (run.novos # <<>> /\ TodosGravados)
        /\ ~res.sucesso => wb.banco = pre.banco

C4_Witness_LockedRun ==
    /\ Executou /\ run.env.bloqueado /\ Len(run.novos) = 2
    /\ ~res.sucesso /\ wb.banco = pre.banco

\* the eight noise phrases of the noise filter
FrasesRuido ==
    << <<"saldo", " ", "do", " ", "dia">>, <<"saldo", " ", "anterior">>,
       <<"saldo", " ", "atual">>, <<"saldo", " ", "final">>,
       <<"saldo", " ", "bloqueado", " ", "anterior">>, <<"saldo", " ", "bloqueado">>,
       <<"saldo", " ", "disponível">>, <<"saldo", " ", "em", " ", "conta">> >>

\* C5: a noise row never becomes a ledger entry.  No row written by a run, in
\* Format A or Format B, has a description that contains a noise phrase.
C5_NoNoiseInLedger ==
    \A i \in LinhasGravadas :
        wb.banco[i].desc.k = "str" => ~contem_frase(wb.banco[i].desc.s, FrasesRuido)

\* a statement with no data row, or whose rows are all empty
ExtratoVazio ==
    \A i \in 1..Len(stmt) :
        IF variant = "B"
        THEN ~notna(stmt[i].Data) /\ ~notna(stmt[i].Historico) /\ ~notna(stmt[i].Valor)
        ELSE ~notna(stmt[i].DATA) /\ ~notna(stmt[i].DOCUMENTO)
             /\ ~notna(stmt[i].HISTORICO) /\ ~notna(stmt[i].VALOR)

C7_Accounting ==
    (Executou /\ res.sucesso)
        => /\ res.novos_lancamentos + res.duplicatas_ignoradas = res.debitos_encontrados
           /\ res.debitos_encontrados <= res.transacoes_processadas
           /\ res.novos_lancamentos = Cardinality(LinhasGravadas)

\* C8: the result record.  Every run returns the success flag and the four counts;
\* a failed run also returns an error message and its four counts are 0.
C8_ResultRecord ==
    Executou =>
        /\ {"sucesso"} \cup Contagens \subseteq DOMAIN res
        /\ ~res.sucesso => ("erro" \in DOMAIN res /\ \A c \in Contagens : res[c] = 0)

\* C9: a locked workbook is fatal.  When the save fails because the file is open,
\* the run returns success = false and reports no new entry.
C9_LockedIsFatal ==
    (Executou /\ run.env.bloqueado /\ run.novos # <<>>)
        => /\ ~res.sucesso
           /\ "novos_lancamentos" \in DOMAIN res => res.novos_lancamentos = 0

\* the magnitude a composed amount denotes: the digits before the comma, thousands
\* dots dropped, and the two decimals
Magnitude(e) ==
    [neg |-> FALSE, ip |-> digits_value(e.lead \o concat(e.grupos)),
     fr |-> rstrip_zeros([i \in 1..Len(e.dec) |-> DigitVal(e.dec[i])])]

\* C10: for every amount of the Format A grammar with flag D the parser returns the
\* magnitude of the numeric part, with or without the leading minus sign.
C10_DebitMagnitude ==
    (pout # Pendente /\ ~pin.livre /\ pin.flag = "D") => pout = Num(Magnitude(pin))

C10_Witness_Example ==
    /\ pin.valor = Str(<<"-", " ", "2", ".", "4", "6", "0", ",", "7", "3", " ", "D">>)
    /\ pout = Num(Dec(2460, <<7, 3>>))

\* C11: credits are always excluded.  For every amount text that contains the
\* letter C in either case, the Format A grammar with flag C included, the parser
\* returns the 'not a debit' sentinel.
C11_CreditsExcluded ==
    (pout # Pendente /\ pin.valor.k = "str" /\ HasTok(upper(pin.valor.s), "C"))
        => pout = NoneCell

C11_Witness_LowerCaseCredit ==
    /\ pin.valor = Str(<<"-", " ", "1", "2", "5", ",", "6", "9", " ", "c">>)
    /\ pout = NoneCell

\* vocabulary of the consolidator's properties
Consolidado == cons.fase \in {"consolidado", "filtrado", "debitos"}

Emitidos == cons.st.registros_consolidados

TemData(r) == cell_text(r.DATA) # <<>>

TextoDe(r) == cell_text(r.HISTORICO)

Continuacao(r) == ~TemData(r) /\ TextoDe(r) # <<>>

Credito(r) == HasTok(upper(cell_text(r.VALOR)), "C")

TemFraseRuido(texto) == contem_frase(texto, FrasesRuido)

\* the position of the next date-bearing row after row i, or one past the end
ProximaData(i) ==
    IF \E j \in (i + 1)..Len(stmt) : TemData(stmt[j])
    THEN CHOOSE j \in (i + 1)..Len(stmt) :
            TemData(stmt[j]) /\ \A m \in (i + 1)..(j - 1) : ~TemData(stmt[m])
    ELSE Len(stmt) + 1

\* the texts of rows i..j, the empty ones left out, joined by single blanks
RECURSIVE Juntar(_, _)
Juntar(i, j) ==
    IF i > j THEN <<>>
    ELSE LET resto == Juntar(i + 1, j)
             t == TextoDe(stmt[i])
         IN  IF t = <<>> THEN resto
             ELSE IF resto = <<>> THEN t
             ELSE t \o <<" ">> \o resto

\* row i starts a transaction and only non-noise continuation rows follow it
TransacaoLimpa(i) ==
    /\ TemData(stmt[i]) /\ ~Credito(stmt[i]) /\ ~TemFraseRuido(TextoDe(stmt[i]))
    /\ \A j \in (i + 1)..(ProximaData(i) - 1) :
          Continuacao(stmt[j]) /\ ~TemFraseRuido(TextoDe(stmt[j]))

\* C12: consolidation.  For every non-noise date-bearing row followed by k >= 0
\* non-noise continuation rows, exactly one transaction is emitted for it; it carries
\* the row's date, document and raw amount, and its description is the row's own
\* description followed by the k continuation texts, in order, joined by single blanks.
C12_Consolidation ==
    Consolidado =>
        \A i \in 1..Len(stmt) :
            TransacaoLimpa(i) =>
                /\ Cardinality({n \in 1..Len(Emitidos) :
                                   Emitidos[n].DOCUMENTO = stmt[i].DOCUMENTO}) = 1
                /\ \E n \in 1..Len(Emitidos) :
                      Emitidos[n] =
                          [stmt[i] EXCEPT !.HISTORICO = Str(Juntar(i, ProximaData(i) - 1))]

C12_Witness_TwoContinuations ==
    /\ Consolidado /\ Len(stmt) = 3 /\ TransacaoLimpa(1) /\ ProximaData(1) = 4
    /\ Len(Emitidos) = 1
    /\ Emitidos[1].HISTORICO =
          Str(<<"PIX", " ", "r1", " ", "LOJA", " ", "r2", " ", "LOJA", " ", "r3">>)

\* the text or the document of row i is in one of the transactions regs
Aparece(i, regs) ==
    \E n \in 1..Len(regs) :
        \/ regs[n].HISTORICO.k = "str" /\ HasTok(regs[n].HISTORICO.s, Tag(i))
        \/ regs[n].DOCUMENTO = Str(<<Tag(i)>>)

\* a date-bearing row and the continuation rows between it and the next date-bearing row
ComContinuacoes(i) ==
    {i} \cup {j \in (i + 1)..(ProximaData(i) - 1) : Continuacao(stmt[j])}

\* the consolidator's classification: a credit amount or a balance phrase
RuidoNaConsolidacao(r) ==
    TemData(r) /\ (Credito(r) \/ contem_frase(TextoDe(r), frases_saldo))

DescricaoComRuido(r) == r.HISTORICO.k = "str" /\ TemFraseRuido(r.HISTORICO.s)

MesmoDia(a, b) == to_datetime(a).k = "date" /\ to_datetime(a) = to_datetime(b)

MesmoValor(a, b) == a.k = "num" /\ b.k = "num" /\ a.n = b.n

\* two descriptions that differ in nothing but letter case and blanks
SoCaixaOuBrancos(a, b) ==
    /\ a.k = "str" /\ b.k = "str"
    /\ lower(strip(collapse_ws(a.s))) = lower(strip(collapse_ws(b.s)))

\* C15: key collision.  A new entry with the date and the amount of an existing ledger
\* row and a description that differs from the row's only in letter case or blanks is
\* a duplicate: it is not among the entries the run appends.
C15_KeyCollision ==
    (Executou /\ FormatoA) =>
        \A k \in 1..Len(run.novos) : \A i \in 1..Len(pre.banco) :
            ~ /\ MesmoDia(run.novos[k].data, pre.banco[i].data)
              /\ MesmoValor(run.novos[k].valor, pre.banco[i].valor)
              /\ SoCaixaOuBrancos(run.novos[k].desc, pre.banco[i].desc)

\* the new debit entries of the statement, as the merger receives them
LancamentosDoExtrato ==
    IF variant = "B"
    THEN mapear_novo_formato(SelectSeq(dropna_all_B(stmt), LAMBDA r : negativo(r.Valor)))
    ELSE mapear_lancamentos(extrair_debitos(filtrar_frases(
             consolidar(dropna_all_A(stmt)).registros_consolidados)))

\* the identity key: the day of the due date (the text itself when it is no date),
\* the description trimmed and in lower case, the amount
Chave(r) ==
    << IF to_datetime(r.data).k = "date" THEN <<"dia", DigitChar(to_datetime(r.data).n.ip)>>
       ELSE strip(astype_str(r.data)),
       lower(strip(astype_str(r.desc))),
       r.valor.n >>

\* the existing rows that have a key; an absent sheet has no rows
LinhasComChave(arquivo) ==
    IF arquivo.tem_banco THEN SelectSeq(arquivo.banco, colunas_para_comparar) ELSE <<>>

JaExiste(e, arquivo) ==
    \E i \in 1..Len(LinhasComChave(arquivo)) : Chave(LinhasComChave(arquivo)[i]) = Chave(e)

\* C16: Ledger Merger contract.  Given the new debit entries and the existing rows of
\* sheet "Banco" (no rows when the sheet is absent or empty), the merger returns
\* exactly the new entries whose key is the key of no existing row, in input order.
C16_MergerContract ==
    (Executou /\ LancamentosDoExtrato # <<>>) =>
        run.novos = SelectSeq(LancamentosDoExtrato, LAMBDA e : ~JaExiste(e, pre))

\* C17: an entry with a missing field passes through.  When a new entry has no date,
\* no description or no amount, the merger completes without error and returns the
\* entry among the new entries: it is never taken for a duplicate.
C17_MissingFieldPassesThrough ==
    Executou =>
        \A k \in 1..Len(LancamentosDoExtrato) :
            ~colunas_para_comparar(LancamentosDoExtrato[k]) =>
                /\ res.sucesso
                /\ \E m \in 1..Len(run.novos) : run.novos[m] = LancamentosDoExtrato[k]


\* the workbook of the i-th selected file of a batch, as it is on disk
PlanilhaDoExtrato(i) == sess.fs[caminho_planilha(sess.pasta, sess.extratos[i])]

LoteTerminado == sess.modo = "lote" /\ sess.pc = "fim" /\ sess.iniciou

\* C18: at the end of a batch, the workbook of every selected file whose run reported
\* new entries holds exactly the entries of that file: at least one entry,
\* and every entry carries the document of the file's own statement.
C18_OwnWorkbookPerFile ==
    LoteTerminado =>
        \A i \in 1..Len(sess.extratos) :
            (sess.resultados[i].sucesso /\ sess.resultados[i].novos_lancamentos >= 1) =>
                LET arquivo == PlanilhaDoExtrato(i)
                IN  /\ arquivo.existe
                    /\ arquivo.wb.banco # <<>>
                    /\ \A k \in 1..Len(arquivo.wb.banco) :
                           arquivo.wb.banco[k].doc = T(Marca(sess.extratos[i]))

\* C19: when the user aborts a file or folder dialog of a run, the pipeline of the
\* run has not started and the files on disk are those the run found.
C19_CancelLeavesNoState ==
    sess.cancelado => (~sess.iniciou /\ sess.fs = sess.fs0)


\* a debit row that starts a transaction and has no noise phrase in its own text
DebitoSemRuido(r) == TemData(r) /\ ~Credito(r) /\ ~TemFraseRuido(TextoDe(r))

\* C20: noisy continuation rows.  The text of a continuation row that contains one of
\* the eight noise phrases, in any letter case, is in the description of no
\* consolidated transaction; and every debit row without a noise phrase of its own
\* has its transaction among those that pass the post-pass filter, whatever its
\* continuation rows say.
C20_NoisyContinuationNotAppended ==
    /\ Consolidado =>
          \A j \in 1..Len(stmt) :
              (Continuacao(stmt[j]) /\ TemFraseRuido(TextoDe(stmt[j]))) =>
                  \A n \in 1..Len(Emitidos) :
                      ~(Emitidos[n].HISTORICO.k = "str" /\ HasTok(Emitidos[n].HISTORICO.s, Tag(j)))
    /\ cons.fase \in {"filtrado", "debitos"} =>
          \A i \in 1..Len(stmt) :
              DebitoSemRuido(stmt[i]) =>
                  \E n \in 1..Len(cons.filtrados) :
                      cons.filtrados[n].DOCUMENTO = stmt[i].DOCUMENTO


\* C21: every value the Format A parser returns is a strictly positive magnitude, on
\* the path of the pattern and on the generic path alike.
C21_PositiveMagnitude ==
    (pout # Pendente /\ pout.k = "num") => (~pout.n.neg /\ pout.n # Zero)

\* the amount text as the parser sees it: trimmed, runs of blanks collapsed
TextoValor == collapse_ws(strip(pin.valor.s))

\* the text stripped to digits, ',', '.', '-', with ',' replaced by '.'
SoNumero(t) == replace(SelectSeq(t, LAMBDA c : c \in Digits \cup {",", ".", "-"}), ",", ".")

\* a decimal number: an optional minus sign, then digits with at most one point
\* among them and at least one digit
EhDecimal(t) ==
    LET corpo == IF t # <<>> /\ t[1] = "-" THEN SubSeq(t, 2, Len(t)) ELSE t
    IN  /\ \A i \in 1..Len(corpo) : corpo[i] \in Digits \cup {"."}
        /\ Cardinality({i \in 1..Len(corpo) : corpo[i] = "."}) <= 1
        /\ \E i \in 1..Len(corpo) : corpo[i] \in Digits

C23_FormatBDateNormalized ==
    (variant = "B" /\ Executou) =>
        \A k \in 1..Len(run.novos) : \A i \in 1..Len(pre.banco) :
            ~ /\ MesmoDia(run.novos[k].data, pre.banco[i].data)
              /\ run.novos[k].desc = pre.banco[i].desc
              /\ MesmoValor(run.novos[k].valor, pre.banco[i].valor)


\* a date cell that is text and names no day
DataIlegivel(c) == c.k = "str" /\ to_datetime(c).k # "date"

\* C24: an unparseable date keeps its text in the key.  A new entry whose date is
\* unparseable is returned as new unless a row of the sheet has the same date text:
\* it is never taken for a duplicate of a row whose date text differs from its own.
C24_UnparseableDateKept ==
    (mes.fase = "mesclado" /\ mes.ok) =>
        \A k \in 1..Len(mes.novos) :
            (/\ DataIlegivel(mes.novos[k].data)
             /\ \A i \in 1..Len(mes.banco) :
                    strip(astype_str(mes.banco[i].data)) # strip(mes.novos[k].data.s))
            => \E m \in 1..Len(mes.sem_duplicatas) : mes.sem_duplicatas[m] = mes.novos[k]


\* a Format B value that is a number below zero
EstritamenteNegativo(c) == c.k = "num" /\ c.n.neg /\ ~(c.n.ip = 0 /\ c.n.fr = <<>>)

\* C25: Format B value rule.  The debit entries of a Format B run are the rows whose
\* value is a number strictly below zero, zero and positive values excluded, and the
\* amount of every entry returned and of every row appended is the absolute value.
C25_FormatBValueRule ==
    (variant = "B" /\ Executou /\ res.sucesso) =>
        /\ res.debitos_encontrados =
              Cardinality({i \in 1..Len(stmt) : EstritamenteNegativo(stmt[i].Valor)})
        /\ \A k \in 1..Len(run.novos) :
              \E i \in 1..Len(stmt) :
                  /\ EstritamenteNegativo(stmt[i].Valor)
                  /\ run.novos[k].valor = Num([stmt[i].Valor.n EXCEPT !.neg = FALSE])
                  /\ run.novos[k].desc = stmt[i].Historico
        /\ \A k \in (Len(pre.banco) + 1)..Len(wb.banco) :
              wb.banco[k].valor.k = "num" /\ ~wb.banco[k].valor.n.neg

C25_Witness_ZeroAndNegative ==
    /\ variant = "B" /\ Executou /\ res.sucesso
    /\ stmt = <<RowB(Date(1), T(<<"LOJA">>), Num(Zero)),
                RowB(Date(1), T(<<"PIX">>), Num(Neg(Dec(125, <<6, 9>>))))>>
    /\ res.debitos_encontrados = 1
    /\ Len(wb.banco) = Len(pre.banco) + 1
    /\ wb.banco[Len(wb.banco)].valor = Num(Dec(125, <<6, 9>>))


\* the delimited-text strategies in the listed order: separator, encoding
EstrategiasListadas ==
    << <<",", "windows-1252">>, <<",", "cp1252">>, <<",", "iso-8859-1">>,
       <<";", "windows-1252">>, <<",", "utf-8-sig">>, <<",", "auto">>, <<",", "utf-8">> >>

\* what the j-th listed strategy reads from the file
Leitura(j) ==
    read_csv(dcd.arquivo, 1, FALSE, EstrategiasListadas[j][1],
             IF EstrategiasListadas[j][2] = "auto"
             THEN codificacao_detectada(dcd.formato = "A_app", dcd.detector)
             ELSE EstrategiasListadas[j][2])

\* the read succeeds and its table is non-empty with at least 3 columns
Aceitavel(j) == Leitura(j).ok /\ Leitura(j).df.linhas # <<>> /\ Leitura(j).df.colunas >= 3

FormatoADecodificador == dcd.formato \in {"A_root", "A_app"} /\ ~dcd.arquivo.excel

\* C26: decoder fallback order.  When the spreadsheet read fails, the strategies are
\* tried in the listed order; the table used downstream is that of the first attempt
\* that is non-empty with at least 3 columns, never that of a rejected or failed
\* attempt; when no attempt is acceptable the run fails with the decode error.
C26_FallbackOrder ==
    FormatoADecodificador =>
        /\ \A k \in 1..Len(dcd.tentativas) :
              /\ dcd.tentativas[k].sep = EstrategiasListadas[k][1]
              /\ EstrategiasListadas[k][2] # "auto" =>
                    dcd.tentativas[k].encoding = EstrategiasListadas[k][2]
        /\ dcd.fase \in {"lido", "pronto"} =>
              \E j \in 1..Len(EstrategiasListadas) :
                  /\ Aceitavel(j) /\ \A m \in 1..(j - 1) : ~Aceitavel(m)
                  /\ Len(dcd.tentativas) = j
                  /\ dcd.df_extrato = Leitura(j).df
        /\ dcd.fase = "falha" =>
              /\ \A j \in 1..Len(EstrategiasListadas) : ~Aceitavel(j)
              /\ Len(dcd.tentativas) = Len(EstrategiasListadas)
              /\ dcd.df_extrato = SemTabela
              /\ dcd.erro = "Não foi possível ler o arquivo"

C26_Witness_FourthStrategy ==
    /\ FormatoADecodificador /\ dcd.fase = "pronto" /\ dcd.arquivo.sep = ";"
    /\ Len(dcd.tentativas) = 4
    /\ \A k \in 1..3 : dcd.tentativas[k].resultado = "rejeitada"
    /\ dcd.tentativas[4] = [sep |-> ";", encoding |-> "windows-1252", resultado |-> "aceita"]
    /\ dcd.df_extrato.colunas = 4 /\ dcd.df_extrato.linhas = <<2, 3>>


\* the number of header rows of the target format
LinhasDeCabecalho == IF dcd.formato = "B" THEN 2 ELSE 1

\* C27: header skip.  The rows handed to the later stages are exactly the physical
\* rows of the file after its first N rows, N = 1 for Format A and 2 for Format B,
\* whether the file was read as a spreadsheet or as delimited text: none of them is
\* consumed as a header or lost.
C27_HeaderSkip ==
    dcd.fase = "pronto" =>
        /\ dcd.df_extrato.linhas = LinhasDesde(LinhasDeCabecalho + 1, dcd.arquivo.n)
        /\ dcd.df_extrato.cabecalho = 0

\* C28: auto-detected encoding.  Whenever detection fails (the detector is
\* unavailable, raises, or returns no encoding) the auto-detected strategy reads the
\* file with Windows-1252.
C28_DetectionFallback ==
    (dcd.formato \in {"A_root", "A_app"} /\ Len(dcd.tentativas) >= 6
        /\ dcd.detector \in {"indisponivel", "erro", "nenhum"})
        => dcd.tentativas[6].encoding = "windows-1252"

\* a date-bearing row that is noise: a credit amount or one of the noise phrases
RuidoComData(r) == TemData(r) /\ (Credito(r) \/ TemFraseRuido(TextoDe(r)))

\* the date-bearing rows of the statement that are not noise, in input order
DatasSemRuido == SelectSeq(stmt, LAMBDA r : TemData(r) /\ ~RuidoComData(r))

\* the position of the first date-bearing row that is not noise, or one past the end
PrimeiraDataSemRuido ==
    IF \E j \in 1..Len(stmt) : TemData(stmt[j]) /\ ~RuidoComData(stmt[j])
    THEN CHOOSE j \in 1..Len(stmt) :
            /\ TemData(stmt[j]) /\ ~RuidoComData(stmt[j])
            /\ \A m \in 1..(j - 1) : ~(TemData(stmt[m]) /\ ~RuidoComData(stmt[m]))
    ELSE Len(stmt) + 1

\* C29: the consolidator emits one transaction for every date-bearing row that is not
\* noise, in the input order of those rows, and transacoes_processadas is their number;
\* the continuation rows before the first such row are in no transaction; and the
\* iteration on a noise date-bearing row leaves the saved transactions, the active
\* row, its description and the counter as they were.
C29_EmittedCount ==
    /\ [](Consolidado =>
            /\ Len(Emitidos) = Len(DatasSemRuido)
            /\ \A n \in 1..Len(Emitidos) :
                  /\ Emitidos[n].DATA = DatasSemRuido[n].DATA
                  /\ Emitidos[n].DOCUMENTO = DatasSemRuido[n].DOCUMENTO
            /\ cons.st.transacoes_processadas = Len(DatasSemRuido)
            /\ \A j \in 1..(PrimeiraDataSemRuido - 1) :
                  Continuacao(stmt[j]) => ~Aparece(j, Emitidos))
    /\ [][(cons.fase = "linhas" /\ cons.i <= Len(stmt) /\ RuidoComData(stmt[cons.i])) =>
            /\ cons'.st.registros_consolidados = cons.st.registros_consolidados
            /\ cons'.st.tem_principal = cons.st.tem_principal
            /\ cons'.st.linha_principal = cons.st.linha_principal
            /\ cons'.st.historico_atual = cons.st.historico_atual
            /\ cons'.st.transacoes_processadas = cons.st.transacoes_processadas]_vars

\* the entries a run hands to the merger: the debits of the statement, mapped
Lancados ==
    IF variant = "B"
    THEN mapear_novo_formato(SelectSeq(dropna_all_B(stmt), LAMBDA r : negativo(r.Valor)))
    ELSE mapear_lancamentos(extrair_debitos(filtrar_frases(
             consolidar(dropna_all_A(stmt)).registros_consolidados)))

\* the identity key of a new entry of the run
ChaveNova(e) ==
    IF variant = "B"
    THEN id_linha(e, FALSE, coluna_datetime(Column(stmt, LAMBDA r : r.Data)),
                  coluna_float(Column(stmt, LAMBDA r : r.Valor)))
    ELSE id_linha(e, TRUE, FALSE, TRUE)

\* the identity keys of the rows the ledger held when the run started
ChavesDoBanco == ids_banco(read_banco_ou_vazio(pre), variant # "B")

\* a row of the sheet is entry e as a writer stores it
Escrita(linha, e) == linha = linha_escrita(e) \/ linha = row_to_disk(e)

\* the run that has just ended reported success
RunConcluido == hist # <<>> /\ res.sucesso

\* the writer of the run could store its rows: the workbook was not open in another
\* program and, for the Format B writer, it had the sheet
GravacaoPossivel == ~run.env.bloqueado /\ (variant = "B" => pre.tem_banco)

\* C30: the merger compares the new entries with the rows of the ledger only.  Two
\* new entries of a run that share an identity key which is not in the ledger are both
\* returned and, when the writer can store them, both are in the sheet afterwards; an
\* entry whose key is in the ledger is not returned, and duplicatas_ignoradas counts
\* every such entry, so two entries with the key of a ledger row count twice.
C30_NoDedupAmongNew ==
    RunConcluido =>
        /\ \A i, j \in 1..Len(Lancados) :
              (i < j /\ ChaveNova(Lancados[i]) = ChaveNova(Lancados[j])
                     /\ ChaveNova(Lancados[i]) \notin ChavesDoBanco) =>
                  /\ \E a, b \in 1..Len(run.novos) :
                        a < b /\ run.novos[a] = Lancados[i] /\ run.novos[b] = Lancados[j]
                  /\ GravacaoPossivel =>
                        \E a, b \in 1..Len(wb.banco) :
                            a < b /\ Escrita(wb.banco[a], Lancados[i])
                                  /\ Escrita(wb.banco[b], Lancados[j])
        /\ \A i \in 1..Len(Lancados) :
              ChaveNova(Lancados[i]) \in ChavesDoBanco =>
                  \A a \in 1..Len(run.novos) : run.novos[a] # Lancados[i]
        /\ res.duplicatas_ignoradas =
              Cardinality({i \in 1..Len(Lancados) : ChaveNova(Lancados[i]) \in ChavesDoBanco})

\* the first run returned two entries with one key and appended both; the second run
\* found two ledger rows with that key and counted both entries as duplicates
C30_Witness_BothAppendedThenBothDuplicates ==
    /\ Len(hist) = 2 /\ hist[1].sucesso /\ hist[1].novos_lancamentos = 2
    /\ hist[1].duplicatas_ignoradas = 0
    /\ Len(Lancados) = 2 /\ ChaveNova(Lancados[1]) = ChaveNova(Lancados[2])
    /\ Cardinality({n \in 1..Len(pre.banco) : Escrita(pre.banco[n], Lancados[1])}) = 2
    /\ res.sucesso /\ res.novos_lancamentos = 0 /\ res.duplicatas_ignoradas = 2
    /\ run.novos = <<>>
====
